---- MODULE Spec2Model ----
(***************************************************************************)
(* Rollout state machine of one Elasticsearch node group backed by a       *)
(* Deployment (deploymentNode), the deployment.Update read-modify-write    *)
(* helper it uses, the bundle fingerprints it records, and the sequencing  *)
(* of node groups by the cluster orchestrator.                             *)
(***************************************************************************)
EXTENDS Integers, Sequences, FiniteSets, TLC

VARIABLES
    backend,    \* [Groups -> stored Deployment]: exists, paused, template, replicas, revision
    pods,       \* [Groups -> set of pod specs listed under the label node-name=<group>]
    node,       \* [Groups -> in-memory deploymentNode]
    configmap,  \* the cluster's configuration bundle (ConfigMap <clusterName>)
    secret,     \* the cluster's credential bundle (Secret <clusterName>)
    inCluster,  \* [Groups -> what esClient.IsNodeInCluster answers]
    declared,   \* the node groups of the declared topology
    pc,         \* position of the reconcile goroutine inside the running operation
    cur,        \* the node group of that operation
    op,         \* the running operation, or the one that just returned
    upd,        \* frame of the deployment.Update call in progress
    polls,      \* polls done by the wait loop in progress
    ret,        \* what the operation that just returned has returned
    calls,      \* steps issued by the running operation, each with its status
    writes,     \* backend mutations accepted from the running operation
    pre,        \* the group's stored object and recorded hashes when the operation started
    readFailed, \* a read made by the change check of progressNodeChanges has failed
    repeat,     \* the result of the same operation on the same group called just before, or "none"
    nodeStatus, \* the ElasticsearchNodeStatus flags last returned by state()
    fingerprints, \* the fingerprint calls made so far: bundle, iteration order of its keys, digest
    rendered,   \* the master count of the declared topology and the node quorum rendered from it
    cancelled,  \* the reconcile running the operation has been cancelled from outside
    orch,       \* the orchestrator pass: running, phase, position in the visit order, chain blocked
    stored,     \* the API object a create-or-update helper works on, as the API server stores it
    helper,     \* per reconcile: the frame of the create-or-update call in progress, or its result
    instances,  \* the Elasticsearch instances that exist
    listed,     \* the instances the latest List of CreateOrUpdateRBAC returned
    conditions, \* the status conditions of the Elasticsearch resource
    contract    \* the runs of deployment.Update and statefulset.Update made on the same inputs

\* what the create-or-update helpers and the two Update functions work on
helperVars == <<stored, helper, instances, listed, conditions, contract>>

\* what the fingerprint and the quorum computations work on, and the above
pureVars == <<fingerprints, rendered, helperVars>>

vars == <<backend, pods, node, configmap, secret, inCluster, declared, pc, cur, op,
          upd, polls, ret, calls, writes, pre, repeat, readFailed, nodeStatus, orch,
          fingerprints, rendered, cancelled, helperVars>>

(***************************************************************************)
(* Bounds of the model.                                                    *)
(***************************************************************************)
\* desired replica counts range over 0..MaxReplicas
MaxReplicas == 1
\* polls of a wait loop before its deadline (the deadline divided by the interval, scaled down)
MaxPolls == 2

(***************************************************************************)
(* Program constants.                                                      *)
(***************************************************************************)
\* retry.DefaultRetry: attempts of RetryOnConflict
RetrySteps == 5
\* wait.Poll: the deadline, in poll intervals of one second, of the waits for the
\* rollout and of the waits for the cluster membership
RolloutTimeout == 30
MembershipTimeout == 60

Groups == {"master-a", "master-b"}
MasterEligible == {"master-a", "master-b"}
Images == {"es:v1", "es:v2"}
ConfigValues == {"x", "y"}
SecretValues == {"s"}
AddedTolerations == {"node.kubernetes.io/not-ready"}

(***************************************************************************)
(* Pod templates and the pod-spec difference rule.                         *)
(***************************************************************************)
newPodTemplateSpec(image) == [image |-> image, tolerations |-> {}]

\* the pod the deployment controller starts from a template: the cluster adds tolerations
PodOf(template) ==
    [image |-> template.image, tolerations |-> template.tolerations \cup AddedTolerations]

AreTolerationsSame(lhs, rhs) == lhs = rhs

ContainsSameTolerations(lhs, rhs) == rhs \subseteq lhs

ArePodSpecDifferent(lhs, rhs, strictTolerations) ==
    \/ lhs.image # rhs.image
    \/ IF strictTolerations
          THEN ~AreTolerationsSame(lhs.tolerations, rhs.tolerations)
          ELSE ~ContainsSameTolerations(lhs.tolerations, rhs.tolerations)

ArePodTemplateSpecDifferent(lhs, rhs) == ArePodSpecDifferent(lhs, rhs, TRUE)

createUpdatablePodTemplateSpec(current, desired) ==
    [current EXCEPT !.image = desired.image, !.tolerations = desired.tolerations]

(***************************************************************************)
(* Bundles and their fingerprints.                                         *)
(***************************************************************************)
KeyOrder == <<"admin-cert", "admin-key", "elasticsearch.yml", "index_settings", "log4j2.properties">>

NoData == [k \in {} |-> "x"]
NoBundle == [exists |-> FALSE, data |-> NoData]
Bundle(data) == [exists |-> TRUE, data |-> data]

Sum256(value) == <<"sha256", value>>

RECURSIVE ConcatHashes(_, _, _)
ConcatHashes(dataHashes, keys, i) ==
    IF i > Len(keys) THEN << >>
    ELSE (IF keys[i] \in DOMAIN dataHashes THEN <<dataHashes[keys[i]]>> ELSE << >>)
         \o ConcatHashes(dataHashes, keys, i + 1)

sortDataHashKeys(dataHashes) == SelectSeq(KeyOrder, LAMBDA k : k \in DOMAIN dataHashes)

\* Panic stands for the nil dereference of cm.Data when the ConfigMap cannot be read
Panic == << <<"panic", "nil pointer dereference">> >>

\* the orders in which a range loop may visit the keys of a map
RECURSIVE RangeOrders(_)
RangeOrders(keys) ==
    IF keys = {} THEN {<< >>}
    ELSE UNION {{<<k>> \o rest : rest \in RangeOrders(keys \ {k})} : k \in keys}

\* the dataHashes map the range loop over data fills, visiting the keys in the given
\* order and leaving out the skipped ones
RECURSIVE rangeDataHashes(_, _, _, _)
rangeDataHashes(data, order, skipped, i) ==
    IF i > Len(order) THEN NoData
    ELSE LET key == order[i]
             rest == rangeDataHashes(data, order, skipped, i + 1)
         IN  IF key \in skipped THEN rest ELSE (key :> Sum256(data[key])) @@ rest

\* a fingerprint that concatenates the digests in the order the range loop met the keys
getConfigmapDataHashRange_unsorted(cm, order) ==
    IF ~cm.exists THEN Panic
    ELSE LET dataHashes == rangeDataHashes(cm.data, order, {"index_settings"}, 1)
         IN  ConcatHashes(dataHashes, SelectSeq(order, LAMBDA k : k \in DOMAIN dataHashes), 1)

\* a fingerprint that leaves out no key
getConfigmapDataHashRange_noVolatile(cm, order) ==
    IF ~cm.exists THEN Panic
    ELSE LET dataHashes == rangeDataHashes(cm.data, order, {}, 1)
         IN  ConcatHashes(dataHashes, sortDataHashKeys(dataHashes), 1)

\* getConfigmapDataHash, the range loop over cm.Data visiting the keys in the given order
getConfigmapDataHashRange(cm, order) ==
    IF ~cm.exists THEN Panic
    ELSE LET dataHashes == rangeDataHashes(cm.data, order, {"index_settings"}, 1)
         IN  ConcatHashes(dataHashes, sortDataHashKeys(dataHashes), 1)

\* getSecretDataHash, the range loop over sec.Data visiting the keys in the given order
getSecretDataHashRange(sec, order) ==
    IF ~sec.exists THEN << >>
    ELSE LET dataHashes == rangeDataHashes(sec.data, order, {}, 1)
         IN  ConcatHashes(dataHashes, sortDataHashKeys(dataHashes), 1)

\* one of the orders of RangeOrders; the digest does not depend on the order
SomeOrder(data) == SelectSeq(KeyOrder, LAMBDA k : k \in DOMAIN data)

getConfigmapDataHash(cm) == getConfigmapDataHashRange(cm, SomeOrder(cm.data))

getSecretDataHash(sec) == getSecretDataHashRange(sec, SomeOrder(sec.data))

ConfigStates == {NoBundle} \cup {Bundle([k \in {"elasticsearch.yml"} |-> v]) : v \in ConfigValues}

SecretStates == {NoBundle} \cup {Bundle([k \in {"admin-cert"} |-> v]) : v \in SecretValues}


(***************************************************************************)
(* Stored and in-memory objects.                                           *)
(***************************************************************************)
NoDeployment ==
    [exists |-> FALSE, paused |-> FALSE, template |-> newPodTemplateSpec("es:v1"),
     replicas |-> 0, revision |-> FALSE]

\* the Deployment built by populateReference: deployment.New(...).With...().Build(),
\* no paused flag set, no resource version yet
populateReference(image, replicas) ==
    [template |-> newPodTemplateSpec(image), paused |-> FALSE, replicas |-> replicas,
     rv |-> FALSE]

NewNode(image, replicas) ==
    [self |-> populateReference(image, replicas), replicas |-> replicas,
     configmapHash |-> << >>, secretHash |-> << >>]

\* a create that stores the Deployment paused, whatever the object handed over says
Stored_paused(self) ==
    [exists |-> TRUE, paused |-> TRUE, template |-> self.template,
     replicas |-> self.replicas, revision |-> FALSE]

\* the object the API server stores for a created Deployment
Stored(self) ==
    [exists |-> TRUE, paused |-> self.paused, template |-> self.template,
     replicas |-> self.replicas, revision |-> FALSE]

NoUpd ==
    [stage |-> "none", kind |-> "none", arg |-> 0, attempts |-> 0, stale |-> FALSE,
     read |-> NoDeployment]

NewUpd(kind, arg) ==
    [stage |-> "get", kind |-> kind, arg |-> arg, attempts |-> 0, stale |-> FALSE,
     read |-> NoDeployment]

Snapshot(g) ==
    [backend |-> backend[g], selfPaused |-> node[g].self.paused,
     configmapHash |-> node[g].configmapHash, secretHash |-> node[g].secretHash]

Issue(c, step) == Append(c, [step |-> step, status |-> "running"])
Settle(c, status) == [c EXCEPT ![Len(c)].status = status]

(***************************************************************************)
(* The compare and mutate functions handed to deployment.Update.           *)
(***************************************************************************)
setPaused_compareFunc(current, desired) == FALSE

\* a mutate function that flips the flag it reads instead of setting it
setPaused_mutateFunc_flip(current, paused) == [current EXCEPT !.paused = ~current.paused]

setPaused_mutateFunc(current, paused) == [current EXCEPT !.paused = paused]

setReplicaCount_compareFunc(current, desired) == TRUE

setReplicaCount_mutateFunc(current, replicas) == [current EXCEPT !.replicas = replicas]

executeUpdate_compareFunc(current, desired) ==
    ArePodTemplateSpecDifferent(current.template, desired.template)

\* a mutate function that copies the whole desired spec, not only the template
executeUpdate_mutateFunc_wholeSpec(current, desired) ==
    [current EXCEPT !.template = desired.template, !.replicas = desired.replicas,
                    !.paused = desired.paused]

executeUpdate_mutateFunc(current, desired) ==
    [current EXCEPT !.template = createUpdatablePodTemplateSpec(current.template, desired.template)]

Cmp(kind, current, desired) ==
    CASE kind = "executeUpdate" -> executeUpdate_compareFunc(current, desired)
      [] kind = "setReplicaCount" -> setReplicaCount_compareFunc(current, desired)
      [] OTHER -> setPaused_compareFunc(current, desired)

Mutate(kind, arg, current, desired) ==
    CASE kind = "executeUpdate" -> executeUpdate_mutateFunc(current, desired)
      [] kind = "setReplicaCount" -> setReplicaCount_mutateFunc(current, arg)
      [] kind = "setPaused_true" -> setPaused_mutateFunc(current, TRUE)
      [] OTHER -> setPaused_mutateFunc(current, FALSE)

(***************************************************************************)
(* Reads of the node.                                                      *)
(***************************************************************************)
isMissing(g, getFails) == ~getFails /\ ~backend[g].exists

isChanged(g, getFails) ==
    IF getFails THEN FALSE
    ELSE IF ~backend[g].exists THEN TRUE
    ELSE ArePodTemplateSpecDifferent(backend[g].template, node[g].self.template)

checkPodSpecMatches(g, listFails) ==
    /\ ~listFails
    /\ \E p \in pods[g] : ~ArePodSpecDifferent(p, node[g].self.template, FALSE)

podSpecMatches(g, listFails) == checkPodSpecMatches(g, listFails)

(***************************************************************************)
(* The orchestrator pass (ClusterRolloutOrchestrator): the groups are      *)
(* visited in VisitOrder; a master-eligible group that completed its cycle *)
(* must rejoin the cluster before the next group is visited; a failure in  *)
(* the master-eligible chain keeps the later master-eligible groups from   *)
(* being visited in this pass.                                             *)
(***************************************************************************)
VisitOrder == <<"master-a", "master-b">>

NoOrch == [running |-> FALSE, phase |-> "visit", next |-> 1, blocked |-> FALSE]

Advance(o, blocks) ==
    IF o.next = Len(VisitOrder)
    THEN NoOrch
    ELSE [o EXCEPT !.phase = "visit", !.next = o.next + 1, !.blocked = o.blocked \/ blocks]

OrchOnReturn(name, g, r) ==
    IF ~orch.running THEN orch
    ELSE IF name \in {"create", "progressNodeChanges"}
         THEN IF r = "ok"
              THEN IF g \in MasterEligible
                   THEN [orch EXCEPT !.phase = "rejoin"]
                   ELSE Advance(orch, FALSE)
              ELSE Advance(orch, g \in MasterEligible)
         ELSE Advance(orch, r # "ok")

(***************************************************************************)
(* Entering and leaving an operation.                                      *)
(***************************************************************************)
NoGroup == CHOOSE g \in Groups : TRUE

NoSnapshot ==
    [backend |-> NoDeployment, selfPaused |-> FALSE, configmapHash |-> << >>,
     secretHash |-> << >>]

\* nothing rendered yet
NoRendered == [masterNodeCount |-> 0, nodeQuorum |-> << >>]

NoStatus == [scheduledForUpgrade |-> FALSE, scheduledForCertRedeploy |-> FALSE]

Begin(name, g) ==
    /\ pc = "idle"
    /\ g \in declared
    /\ op' = name
    /\ cur' = g
    /\ pre' = Snapshot(g)
    /\ repeat' = IF op = name /\ cur = g THEN ret ELSE "none"

ReturnOf(name, g, r, finalCalls) ==
    /\ pc' = "idle"
    /\ ret' = r
    /\ upd' = NoUpd
    /\ polls' = 0
    /\ calls' = finalCalls
    /\ orch' = OrchOnReturn(name, g, r)
    /\ cancelled' = FALSE

Return(r, finalCalls) == ReturnOf(op, cur, r, finalCalls)

Goto(step, frame, nextCalls) ==
    /\ pc' = step
    /\ upd' = frame
    /\ polls' = 0
    /\ ret' = "none"
    /\ calls' = nextCalls
    /\ UNCHANGED <<orch, cancelled>>

Continue(frame, p) ==
    /\ upd' = frame
    /\ polls' = p
    /\ UNCHANGED <<pc, ret, calls, orch, cancelled>>

\* what is known of the last operation lasts until something else happens
Forget ==
    /\ UNCHANGED cancelled
    /\ IF pc = "idle"
       THEN /\ op' = "none"
            /\ cur' = NoGroup
            /\ pre' = NoSnapshot
            /\ repeat' = "none"
            /\ readFailed' = FALSE
            /\ ret' = "none"
            /\ calls' = << >>
            /\ writes' = << >>
            /\ nodeStatus' = NoStatus
       ELSE UNCHANGED <<op, cur, pre, repeat, readFailed, ret, calls, writes, nodeStatus>>

(***************************************************************************)
(* What runs after deployment.Update returned to the node method that      *)
(* called it: setPaused, setReplicaCount, executeUpdate, and the rest of    *)
(* progressNodeChanges or create around them.                              *)
(***************************************************************************)
refreshHashes(n) ==
    [n EXCEPT !.configmapHash = getConfigmapDataHash(configmap),
              !.secretHash = getSecretDataHash(secret)]

\* a progressNodeChanges that pauses right after the unpause, before the rollout wait
progressNodeChanges_next_nowait(step) ==
    CASE step = "executeUpdate" -> "unpause"
      [] step = "unpause" -> "pause"
      [] step = "pause" -> "waitForNodeRollout"
      [] OTHER -> "refreshHashes"

\* the order of the steps of progressNodeChanges once it found a change
progressNodeChanges_next(step) ==
    CASE step = "executeUpdate" -> "unpause"
      [] step = "unpause" -> "waitForNodeRollout"
      [] step = "waitForNodeRollout" -> "pause"
      [] OTHER -> "refreshHashes"

\* a progressNodeChanges that pauses the group also when the rollout wait timed out
progressNodeChanges_afterWait_forcePause(timedOut) == "pause"

\* what progressNodeChanges does with the result of waitForNodeRollout
progressNodeChanges_afterWait(timedOut) ==
    IF timedOut THEN "return" ELSE progressNodeChanges_next("waitForNodeRollout")

FrameOf(step) ==
    CASE step = "unpause" -> NewUpd("setPaused_false", 0)
      [] step = "pause" -> NewUpd("setPaused_true", 0)
      [] step = "executeUpdate" -> NewUpd("executeUpdate", 0)
      [] OTHER -> NoUpd

\* the running step is over, settled as the calls in done, and progressNodeChanges
\* goes on with the given step
ProceedFrom(done, step) ==
    IF step = "refreshHashes"
    THEN IF getConfigmapDataHash(configmap) = Panic
         THEN /\ node' = [node EXCEPT ![cur].self.paused = (pc = "pause") \/ node[cur].self.paused]
              /\ Return("panic", Settle(Issue(done, step), "failed"))
         ELSE /\ node' = [node EXCEPT ![cur] =
                              refreshHashes([node[cur] EXCEPT
                                  !.self.paused = (pc = "pause") \/ node[cur].self.paused])]
              /\ Return("ok", Settle(Issue(done, step), "ok"))
    ELSE /\ node' = IF pc \in {"pause", "unpause"}
                    THEN [node EXCEPT ![cur].self.paused = (pc = "pause")]
                    ELSE node
         /\ Goto(step, FrameOf(step), Issue(done, step))

\* the running step succeeded
Proceed(step) == ProceedFrom(Settle(calls, "ok"), step)

AfterUpdate(err) ==
    IF err
    THEN Return("error", Settle(calls, "failed")) /\ UNCHANGED node
    ELSE IF op = "progressNodeChanges"
         THEN Proceed(progressNodeChanges_next(pc))
         ELSE /\ node' = CASE pc = "pause" -> [node EXCEPT ![cur].self.paused = TRUE]
                           [] pc = "unpause" -> [node EXCEPT ![cur].self.paused = FALSE]
                           [] pc = "setReplicaCount" -> [node EXCEPT ![cur].self.replicas = upd.arg]
                           [] OTHER -> node
              /\ Return("ok", Settle(calls, "ok"))

(***************************************************************************)
(* deployment.Update: a first read and the compare function, then up to    *)
(* RetrySteps attempts of read, mutate, conditional write.                 *)
(***************************************************************************)
\* a retry loop that goes on as long as the conflicts do
RetryOnConflict_exhausted_never(attempts) == FALSE

\* retry.RetryOnConflict: the attempt that just met a conflict was the last one
RetryOnConflict_exhausted(attempts) == attempts + 1 >= RetrySteps

UpdateGet ==
    /\ upd.stage = "get"
    /\ \E getFails \in BOOLEAN :
          IF getFails \/ ~backend[cur].exists
          THEN AfterUpdate(TRUE)
          ELSE IF Cmp(upd.kind, backend[cur], node[cur].self)
               THEN AfterUpdate(FALSE)
               ELSE Continue([upd EXCEPT !.stage = "read"], polls) /\ UNCHANGED node
    /\ UNCHANGED <<backend, pods, configmap, secret, inCluster, declared, cur, op,
                   writes, pre, repeat, readFailed, nodeStatus>>
    /\ UNCHANGED pureVars

UpdateRead ==
    /\ upd.stage = "read"
    /\ \E getFails \in BOOLEAN :
          IF getFails \/ ~backend[cur].exists
          THEN AfterUpdate(TRUE)
          ELSE /\ Continue([upd EXCEPT !.stage = "write", !.read = backend[cur],
                                       !.stale = FALSE], polls)
               /\ UNCHANGED node
    /\ UNCHANGED <<backend, pods, configmap, secret, inCluster, declared, cur, op,
                   writes, pre, repeat, readFailed, nodeStatus>>
    /\ UNCHANGED pureVars

UpdateWriteFails ==
    /\ upd.stage = "write"
    /\ AfterUpdate(TRUE)
    /\ UNCHANGED <<backend, pods, configmap, secret, inCluster, declared, cur, op,
                   writes, pre, repeat, readFailed, nodeStatus>>
    /\ UNCHANGED pureVars

UpdateWriteConflict ==
    /\ upd.stage = "write"
    /\ upd.stale
    /\ IF ~RetryOnConflict_exhausted(upd.attempts)
       THEN /\ Continue([upd EXCEPT !.stage = "read", !.attempts = upd.attempts + 1], polls)
            /\ UNCHANGED node
       ELSE AfterUpdate(TRUE)
    /\ UNCHANGED <<backend, pods, configmap, secret, inCluster, declared, cur, op,
                   writes, pre, repeat, readFailed, nodeStatus>>
    /\ UNCHANGED pureVars

UpdateWrite ==
    /\ upd.stage = "write"
    /\ ~upd.stale
    /\ backend' = [backend EXCEPT ![cur] = Mutate(upd.kind, upd.arg, upd.read, node[cur].self)]
    /\ writes' = Append(writes, upd.kind)
    /\ AfterUpdate(FALSE)
    /\ UNCHANGED <<pods, configmap, secret, inCluster, declared, cur, op, pre, repeat, readFailed,
                   nodeStatus>>
    /\ UNCHANGED pureVars

(***************************************************************************)
(* wait.Poll: the condition is polled once per interval until it holds,    *)
(* fails, or the deadline has passed.  The model counts MaxPolls polls for *)
(* a deadline of RolloutTimeout intervals.                                 *)
(***************************************************************************)
PollsWithin(timeout) == (timeout * MaxPolls) \div RolloutTimeout

RolloutPolls == PollsWithin(RolloutTimeout)

MembershipPolls == PollsWithin(MembershipTimeout)

\* a wait that starts over at every poll
nextPoll_restart(n) == 0

\* the polls made after one more poll
nextPoll(n) == n + 1

(***************************************************************************)
(* progressNodeChanges                                                     *)
(***************************************************************************)
progressNodeChanges(g) ==
    /\ Begin("progressNodeChanges", g)
    /\ writes' = << >>
    /\ \E getFails \in BOOLEAN, listFails \in BOOLEAN :
          /\ readFailed' = (getFails \/ listFails)
          /\ IF ~isChanged(g, getFails) /\ podSpecMatches(g, listFails)
             THEN ReturnOf("progressNodeChanges", g, "ok", << >>)
             ELSE Goto("executeUpdate", NewUpd("executeUpdate", 0),
                       Issue(<< >>, "executeUpdate"))
    /\ UNCHANGED <<backend, pods, node, configmap, secret, inCluster, declared, nodeStatus>>
    /\ UNCHANGED pureVars

waitForNodeRollout ==
    /\ pc = "waitForNodeRollout"
    /\ IF polls < RolloutPolls
       THEN \E listFails \in BOOLEAN :
               IF checkPodSpecMatches(cur, listFails)
               THEN Proceed(progressNodeChanges_afterWait(FALSE))
               ELSE Continue(upd, nextPoll(polls)) /\ UNCHANGED node
       ELSE IF progressNodeChanges_afterWait(TRUE) = "return"
            THEN Return("timeout", Settle(calls, "timeout")) /\ UNCHANGED node
            ELSE ProceedFrom(Settle(calls, "timeout"), progressNodeChanges_afterWait(TRUE))
    /\ UNCHANGED <<backend, pods, configmap, secret, inCluster, declared, cur, op,
                   writes, pre, repeat, readFailed, nodeStatus>>
    /\ UNCHANGED pureVars

(***************************************************************************)
(* create                                                                  *)
(***************************************************************************)
create(g) ==
    /\ Begin("create", g)
    /\ readFailed' = FALSE
    /\ IF ~node[g].self.rv
       THEN \/ /\ ReturnOf("create", g, "error", <<[step |-> "Create", status |-> "failed"]>>)
               /\ writes' = << >>
               /\ UNCHANGED <<backend, node>>
            \/ /\ ~backend[g].exists
               /\ backend' = [backend EXCEPT ![g] = Stored(node[g].self)]
               /\ node' = [node EXCEPT ![g].self.rv = TRUE]
               /\ writes' = <<"Create">>
               /\ Goto("waitForInitialRollout", NoUpd,
                       Issue(<<[step |-> "Create", status |-> "ok"]>>, "waitForInitialRollout"))
            \/ /\ backend[g].exists
               /\ writes' = << >>
               /\ Goto("waitForInitialRollout", NoUpd,
                       Issue(<<[step |-> "Create", status |-> "exists"]>>, "waitForInitialRollout"))
               /\ UNCHANGED <<backend, node>>
       ELSE /\ writes' = << >>
            /\ Goto("pause", NewUpd("setPaused_true", 0), Issue(<< >>, "pause"))
            /\ UNCHANGED <<backend, node>>
    /\ UNCHANGED <<pods, configmap, secret, inCluster, declared, nodeStatus>>
    /\ UNCHANGED pureVars

\* a poll condition satisfied by any stored Deployment
waitForInitialRollout_done_anyDeployment(dpl) == dpl.exists

\* the poll condition: the revision annotation is on the stored Deployment
waitForInitialRollout_done(dpl) == dpl.revision

\* a create that records the configuration fingerprint only
recordHashes_configOnly(n) ==
    [n EXCEPT !.configmapHash = getConfigmapDataHash(configmap)]

\* create: "update the hashmaps"
recordHashes(n) ==
    [n EXCEPT !.configmapHash = getConfigmapDataHash(configmap),
              !.secretHash = getSecretDataHash(secret)]

waitForInitialRollout ==
    /\ pc = "waitForInitialRollout"
    /\ IF polls < RolloutPolls
       THEN \E getFails \in BOOLEAN :
               IF getFails \/ ~backend[cur].exists
               THEN Return("error", Settle(calls, "failed")) /\ UNCHANGED node
               ELSE IF waitForInitialRollout_done(backend[cur])
                    THEN IF getConfigmapDataHash(configmap) = Panic
                         THEN /\ Return("panic", Settle(Issue(Settle(calls, "ok"), "recordHashes"), "failed"))
                              /\ UNCHANGED node
                         ELSE /\ node' = [node EXCEPT ![cur] = recordHashes(node[cur])]
                              /\ Goto("pause", NewUpd("setPaused_true", 0),
                                      Issue(Settle(Issue(Settle(calls, "ok"), "recordHashes"), "ok"), "pause"))
                    ELSE Continue(upd, nextPoll(polls)) /\ UNCHANGED node
       ELSE Return("timeout", Settle(calls, "timeout")) /\ UNCHANGED node
    /\ UNCHANGED <<backend, pods, configmap, secret, inCluster, declared, cur, op,
                   writes, pre, repeat, readFailed, nodeStatus>>
    /\ UNCHANGED pureVars

(***************************************************************************)
(* The other operations of the node.                                       *)
(***************************************************************************)
updateReference(g, image) ==
    /\ pc = "idle"
    /\ g \in declared
    /\ node' = [node EXCEPT ![g].self = populateReference(image, node[g].replicas)]
    /\ Forget
    /\ UNCHANGED <<backend, pods, configmap, secret, inCluster, declared, pc, upd, polls, orch>>
    /\ UNCHANGED pureVars

delete(g) ==
    /\ Begin("delete", g)
    /\ readFailed' = FALSE
    /\ \/ /\ ReturnOf("delete", g, "error", <<[step |-> "Delete", status |-> "failed"]>>)
          /\ writes' = << >>
          /\ UNCHANGED backend
       \/ /\ backend[g].exists
          /\ backend' = [backend EXCEPT ![g] = NoDeployment]
          /\ writes' = <<"Delete">>
          /\ ReturnOf("delete", g, "ok", <<[step |-> "Delete", status |-> "ok"]>>)
    /\ UNCHANGED <<pods, node, configmap, secret, inCluster, declared, nodeStatus>>
    /\ UNCHANGED pureVars

\* a state that flags every difference, also from no recorded hash
state_rolloutForCertReload_anyDifference(secretHash, newSecretHash) ==
    newSecretHash # secretHash

\* a state that takes the digest of a bundle that is gone for no change
state_rolloutForCertReload_ignoreMissing(secretHash, newSecretHash) ==
    secretHash # << >> /\ newSecretHash # << >> /\ newSecretHash # secretHash

\* state: rolloutForCertReload
state_rolloutForCertReload(secretHash, newSecretHash) ==
    secretHash # << >> /\ newSecretHash # secretHash

\* a state that takes the current hash as the recorded one on every call
state_secretHash_alwaysAdopt(secretHash, newSecretHash) == newSecretHash

\* state: node.secretHash after the call
state_secretHash(secretHash, newSecretHash) ==
    IF secretHash = << >> THEN newSecretHash ELSE secretHash

state(g) ==
    /\ Begin("state", g)
    /\ readFailed' = FALSE
    /\ writes' = << >>
    /\ \E getFails \in BOOLEAN :
          LET newSecretHash == getSecretDataHash(secret)
          IN  /\ nodeStatus' = [scheduledForUpgrade |-> isChanged(g, getFails),
                                scheduledForCertRedeploy |->
                                    state_rolloutForCertReload(node[g].secretHash, newSecretHash)]
              /\ node' = [node EXCEPT ![g].secretHash =
                                         state_secretHash(node[g].secretHash, newSecretHash)]
    /\ ReturnOf("state", g, "ok", << >>)
    /\ UNCHANGED <<backend, pods, configmap, secret, inCluster, declared>>
    /\ UNCHANGED pureVars

pause(g) ==
    /\ Begin("pause", g)
    /\ readFailed' = FALSE
    /\ writes' = << >>
    /\ Goto("pause", NewUpd("setPaused_true", 0), Issue(<< >>, "pause"))
    /\ UNCHANGED <<backend, pods, node, configmap, secret, inCluster, declared, nodeStatus>>
    /\ UNCHANGED pureVars

unpause(g) ==
    /\ Begin("unpause", g)
    /\ readFailed' = FALSE
    /\ writes' = << >>
    /\ Goto("unpause", NewUpd("setPaused_false", 0), Issue(<< >>, "unpause"))
    /\ UNCHANGED <<backend, pods, node, configmap, secret, inCluster, declared, nodeStatus>>
    /\ UNCHANGED pureVars

executeUpdate(g) ==
    /\ Begin("executeUpdate", g)
    /\ readFailed' = FALSE
    /\ writes' = << >>
    /\ Goto("executeUpdate", NewUpd("executeUpdate", 0), Issue(<< >>, "executeUpdate"))
    /\ UNCHANGED <<backend, pods, node, configmap, secret, inCluster, declared, nodeStatus>>
    /\ UNCHANGED pureVars

scaleDown(g) ==
    /\ Begin("scaleDown", g)
    /\ readFailed' = FALSE
    /\ writes' = << >>
    /\ Goto("setReplicaCount", NewUpd("setReplicaCount", 0), Issue(<< >>, "setReplicaCount"))
    /\ UNCHANGED <<backend, pods, node, configmap, secret, inCluster, declared, nodeStatus>>
    /\ UNCHANGED pureVars

scaleUp(g) ==
    /\ Begin("scaleUp", g)
    /\ readFailed' = FALSE
    /\ writes' = << >>
    /\ Goto("setReplicaCount", NewUpd("setReplicaCount", node[g].replicas),
            Issue(<< >>, "setReplicaCount"))
    /\ UNCHANGED <<backend, pods, node, configmap, secret, inCluster, declared, nodeStatus>>
    /\ UNCHANGED pureVars

waitForNodeRejoinCluster(g) ==
    /\ Begin("waitForNodeRejoinCluster", g)
    /\ readFailed' = FALSE
    /\ writes' = << >>
    /\ Goto("waitForNodeRejoinCluster", NoUpd, Issue(<< >>, "waitForNodeRejoinCluster"))
    /\ UNCHANGED <<backend, pods, node, configmap, secret, inCluster, declared, nodeStatus>>
    /\ UNCHANGED pureVars

waitForNodeLeaveCluster(g) ==
    /\ Begin("waitForNodeLeaveCluster", g)
    /\ readFailed' = FALSE
    /\ writes' = << >>
    /\ Goto("waitForNodeLeaveCluster", NoUpd, Issue(<< >>, "waitForNodeLeaveCluster"))
    /\ UNCHANGED <<backend, pods, node, configmap, secret, inCluster, declared, nodeStatus>>
    /\ UNCHANGED pureVars

\* a leave wait that is over when the node is reported present
waitForNodeLeaveCluster_done_present(present) == present

\* a rejoin wait that is over at its first poll
waitForNodeRejoinCluster_done_always(present) == TRUE

\* the poll conditions of the two membership waits
waitForNodeRejoinCluster_done(present) == present

waitForNodeLeaveCluster_done(present) == ~present

\* one poll of the membership wait loops: the client answers, or fails
pollMembership ==
    /\ pc \in {"waitForNodeRejoinCluster", "waitForNodeLeaveCluster"}
    /\ IF polls < MembershipPolls
       THEN \E checkErr \in BOOLEAN :
               IF checkErr
               THEN Return("error", Settle(calls, "failed"))
               ELSE IF (IF pc = "waitForNodeRejoinCluster"
                        THEN waitForNodeRejoinCluster_done(inCluster[cur])
                        ELSE waitForNodeLeaveCluster_done(inCluster[cur]))
                    THEN Return("ok", Settle(calls, "ok"))
                    ELSE Continue(upd, nextPoll(polls))
       ELSE Return("timeout", Settle(calls, "failed"))
    /\ UNCHANGED <<backend, pods, node, configmap, secret, inCluster, declared, cur, op,
                   writes, pre, repeat, readFailed, nodeStatus>>
    /\ UNCHANGED pureVars

(***************************************************************************)
(* The environment: the deployment controller, the garbage collector,      *)
(* other writers of the stored object, changes of the bundles and of the   *)
(* cluster membership.                                                     *)
(***************************************************************************)
\* a backend that accepts a write under any version
MarkStale_unnoticed(g) == upd

\* a write of the stored object by someone else invalidates the version read by an
\* Update attempt that has not yet written
MarkStale(g) ==
    IF upd.stage = "write" /\ cur = g THEN [upd EXCEPT !.stale = TRUE] ELSE upd

ControllerSetsRevision(g) ==
    /\ g \in declared
    /\ backend[g].exists /\ ~backend[g].paused /\ ~backend[g].revision
    /\ backend' = [backend EXCEPT ![g].revision = TRUE]
    /\ upd' = MarkStale(g)
    /\ Forget
    /\ UNCHANGED <<pods, node, configmap, secret, inCluster, declared, pc, polls, orch>>
    /\ UNCHANGED pureVars

ControllerStopsPod(g) ==
    /\ g \in declared
    /\ backend[g].exists
    /\ \E p \in pods[g] :
          /\ \/ backend[g].replicas = 0
             \/ ~backend[g].paused /\ p # PodOf(backend[g].template)
          /\ pods' = [pods EXCEPT ![g] = pods[g] \ {p}]
    /\ upd' = MarkStale(g)
    /\ Forget
    /\ UNCHANGED <<backend, node, configmap, secret, inCluster, declared, pc, polls, orch>>
    /\ UNCHANGED pureVars

\* strategy Recreate: new pods start once the old ones are gone
ControllerStartsPod(g) ==
    /\ g \in declared
    /\ backend[g].exists /\ ~backend[g].paused /\ backend[g].revision
    /\ backend[g].replicas > 0
    /\ pods[g] = {}
    /\ pods' = [pods EXCEPT ![g] = {PodOf(backend[g].template)}]
    /\ upd' = MarkStale(g)
    /\ Forget
    /\ UNCHANGED <<backend, node, configmap, secret, inCluster, declared, pc, polls, orch>>
    /\ UNCHANGED pureVars

CollectorRemovesPod(g) ==
    /\ g \in declared
    /\ ~backend[g].exists
    /\ \E p \in pods[g] : pods' = [pods EXCEPT ![g] = pods[g] \ {p}]
    /\ Forget
    /\ UNCHANGED <<backend, node, configmap, secret, inCluster, declared, pc, upd, polls, orch>>
    /\ UNCHANGED pureVars

OtherWriter(g) ==
    /\ g \in declared
    /\ backend[g].exists
    /\ \E n \in 0..MaxReplicas :
          /\ n # backend[g].replicas
          /\ backend' = [backend EXCEPT ![g].replicas = n]
    /\ upd' = MarkStale(g)
    /\ Forget
    /\ UNCHANGED <<pods, node, configmap, secret, inCluster, declared, pc, polls, orch>>
    /\ UNCHANGED pureVars

ConfigChange(b) ==
    /\ pc = "idle"
    /\ b # configmap
    /\ configmap' = b
    /\ Forget
    /\ UNCHANGED <<backend, pods, node, secret, inCluster, declared, pc, upd, polls, orch>>
    /\ UNCHANGED pureVars

SecretChange(b) ==
    /\ pc = "idle"
    /\ b # secret
    /\ secret' = b
    /\ Forget
    /\ UNCHANGED <<backend, pods, node, configmap, inCluster, declared, pc, upd, polls, orch>>
    /\ UNCHANGED pureVars

MembershipChange(g) ==
    /\ g \in declared
    /\ inCluster' = [inCluster EXCEPT ![g] = ~inCluster[g]]
    /\ Forget
    /\ UNCHANGED <<backend, pods, node, configmap, secret, declared, pc, upd, polls, orch>>
    /\ UNCHANGED pureVars

(***************************************************************************)
(* The create-or-update helpers of the API resource kinds.  An API object  *)
(* is the part the helper's mutation copies (rules, subjects, data, ports  *)
(* and selector), the part it leaves alone (the rest of the metadata and   *)
(* of the spec), and the resource version the API server assigns.          *)
(***************************************************************************)
Kinds ==
    {"role", "clusterrole", "rolebinding", "clusterrolebinding", "serviceaccount", "service",
     "secret", "configmap"}

\* the reconciles of the clusters, one per Elasticsearch instance
Reconciles == {"es-a", "es-b"}

esConfig == "elasticsearch.yml"
log4jConfig == "log4j2.properties"
indexSettingsConfig == "index_settings"

\* renderData: the three keys, the rendered values depending on the cluster settings
Contents ==
    {[k \in {esConfig, log4jConfig, indexSettingsConfig} |->
         IF k = esConfig THEN v ELSE IF k = indexSettingsConfig THEN w ELSE "x"] :
       v \in ConfigValues, w \in ConfigValues}

KeptValues == {"owner-a", "owner-b"}

\* an object as its constructor builds it: no resource version
NewObject(copied, kept) == [copied |-> copied, kept |-> kept, resourceVersion |-> 0]

NoObject == NewObject(NoData, "none")

NoStored == [kind |-> "none", exists |-> FALSE, copied |-> NoData, kept |-> "none",
             resourceVersion |-> 0]

\* c.Get: the stored object with the resource version the API server gave it
Got(s) == [copied |-> s.copied, kept |-> s.kept, resourceVersion |-> s.resourceVersion]

\* the value of a key of a Go map: the zero value for a key that is not in it
Lookup(data, key) == IF key \in DOMAIN data THEN data[key] ELSE ""

\* equality.Semantic.DeepEqual of two objects, metadata included
DeepEqual(current, desired) == current = desired

CompareDataEqual(current, desired) ==
    /\ Cardinality(DOMAIN current.copied) = Cardinality(DOMAIN desired.copied)
    /\ \A lKey \in DOMAIN current.copied :
          /\ \E rKey \in DOMAIN desired.copied : lKey = rKey
          /\ \A rKey \in DOMAIN desired.copied :
                lKey = rKey => current.copied[lKey] = desired.copied[rKey]

configMapContentEqual(old, new) ==
    /\ Sum256(Lookup(old.copied, esConfig)) = Sum256(Lookup(new.copied, esConfig))
    /\ Sum256(Lookup(old.copied, log4jConfig)) = Sum256(Lookup(new.copied, log4jConfig))
    /\ Sum256(Lookup(old.copied, indexSettingsConfig))
          = Sum256(Lookup(new.copied, indexSettingsConfig))

\* the compare function of each helper: the one its callers hand over, or the one built in
CompareOf(kind, current, desired) ==
    CASE kind = "secret" -> CompareDataEqual(current, desired)
      [] kind = "configmap" -> configMapContentEqual(current, desired)
      [] OTHER -> DeepEqual(current, desired)

\* current.Rules = r.Rules, current.Subjects = crb.Subjects, MutateDataOnly, service.Mutate
MutateOf(kind, current, desired) == [current EXCEPT !.copied = desired.copied]

\* the object a retry attempt hands to c.Update
Submitted(kind, current, desired) ==
    IF kind = "serviceaccount" THEN desired ELSE MutateOf(kind, current, desired)

\* the API server accepts an update that carries the stored resource version, or none
Accepts(s, object) ==
    s.exists /\ (object.resourceVersion = 0 \/ object.resourceVersion = s.resourceVersion)

\* the stored object after a write of the given object
Written(s, object) ==
    [s EXCEPT !.exists = TRUE, !.copied = object.copied, !.kept = object.kept,
              !.resourceVersion = s.resourceVersion + 1]

NoCall == [res |-> "none", desired |-> NoObject]

NoHelper ==
    [pc |-> "idle", desired |-> NoObject, current |-> NoObject, attempts |-> 0,
     res |-> "none", updates |-> 0, submitted |-> NoObject, readVersion |-> 0,
     prev |-> NoCall, touched |-> FALSE, subjects |-> {}]

NoConditions == [UpdatingSettings |-> "Unknown"]

(***************************************************************************)
(* Specification of one node group: create and progressNodeChanges called  *)
(* in any order, the desired template changing between calls.              *)
(***************************************************************************)
InitWith(groups) ==
    /\ declared = groups
    /\ backend = [g \in Groups |-> NoDeployment]
    /\ pods = [g \in Groups |-> {}]
    /\ \E n \in 0..MaxReplicas : node = [g \in Groups |-> NewNode("es:v1", n)]
    /\ configmap \in ConfigStates
    /\ secret \in SecretStates
    /\ inCluster = [g \in Groups |-> FALSE]
    /\ pc = "idle"
    /\ cur = NoGroup
    /\ op = "none"
    /\ upd = NoUpd
    /\ polls = 0
    /\ ret = "none"
    /\ calls = << >>
    /\ writes = << >>
    /\ pre = NoSnapshot
    /\ repeat = "none"
    /\ readFailed = FALSE
    /\ nodeStatus = NoStatus
    /\ orch = NoOrch
    /\ fingerprints = << >>
    /\ rendered = NoRendered
    /\ cancelled = FALSE
    /\ stored = NoStored
    /\ helper = [c \in Reconciles |-> NoHelper]
    /\ instances = {}
    /\ listed = {}
    /\ conditions = NoConditions
    /\ contract = << >>

Init == InitWith({"master-a"})

Call ==
    \E g \in Groups :
       \/ create(g)
       \/ progressNodeChanges(g)
       \/ delete(g)
       \/ \E image \in Images : updateReference(g, image)

\* the steps inside a running operation
Step ==
    \/ UpdateGet
    \/ UpdateRead
    \/ UpdateWriteFails
    \/ UpdateWriteConflict
    \/ UpdateWrite
    \/ waitForNodeRollout
    \/ waitForInitialRollout

Environment ==
    \/ \E g \in Groups : \/ ControllerSetsRevision(g)
                         \/ ControllerStopsPod(g)
                         \/ ControllerStartsPod(g)
                         \/ CollectorRemovesPod(g)
    \/ \E b \in ConfigStates : ConfigChange(b)
    \/ \E b \in SecretStates : SecretChange(b)

Next == Call \/ Step \/ Environment

Spec == Init /\ [][Next]_vars

(***************************************************************************)
(* Specification of the orchestrator: passes over the declared groups, one *)
(* after the other, each pass visiting the groups in VisitOrder.           *)
(***************************************************************************)
InitOrch ==
    /\ InitWith(Groups)
    /\ configmap.exists

\* the group the pass is at
Visited == VisitOrder[orch.next]

\* a pass starts: the desired objects of all groups are built from the declared topology
OrchStart ==
    /\ pc = "idle"
    /\ ~orch.running
    /\ \E image \in Images :
          node' = [g \in Groups |->
                      [node[g] EXCEPT !.self = populateReference(image, node[g].replicas)]]
    /\ orch' = [NoOrch EXCEPT !.running = TRUE]
    /\ Forget
    /\ UNCHANGED <<backend, pods, configmap, secret, inCluster, declared, pc, upd, polls>>
    /\ UNCHANGED pureVars

OrchMayVisit ==
    /\ pc = "idle"
    /\ orch.running
    /\ orch.phase = "visit"
    /\ ~(orch.blocked /\ Visited \in MasterEligible)

OrchCreate ==
    /\ OrchMayVisit
    /\ isMissing(Visited, FALSE)
    /\ create(Visited)

OrchProgress ==
    /\ OrchMayVisit
    /\ \E getFails \in BOOLEAN : ~isMissing(Visited, getFails)
    /\ progressNodeChanges(Visited)

\* a master-eligible group behind a failure of the chain is left for the next pass
OrchSkip ==
    /\ pc = "idle"
    /\ orch.running
    /\ orch.phase = "visit"
    /\ orch.blocked /\ Visited \in MasterEligible
    /\ orch' = Advance(orch, FALSE)
    /\ Forget
    /\ UNCHANGED <<backend, pods, node, configmap, secret, inCluster, declared, pc, upd, polls>>
    /\ UNCHANGED pureVars

OrchRejoin ==
    /\ pc = "idle"
    /\ orch.running
    /\ orch.phase = "rejoin"
    /\ waitForNodeRejoinCluster(Visited)

OrchPass ==
    \/ OrchStart
    \/ OrchCreate
    \/ OrchProgress
    \/ OrchSkip
    \/ OrchRejoin

OrchStep ==
    \/ UpdateGet
    \/ UpdateRead
    \/ UpdateWriteFails
    \/ UpdateWriteConflict
    \/ UpdateWrite
    \/ waitForNodeRollout
    \/ waitForInitialRollout
    \/ pollMembership

OrchEnvironment ==
    \E g \in Groups : \/ ControllerSetsRevision(g)
                      \/ ControllerStartsPod(g)
                      \/ MembershipChange(g)

NextOrch == OrchPass \/ OrchStep \/ OrchEnvironment

SpecOrch == InitOrch /\ [][NextOrch]_vars

(***************************************************************************)
(* Specification of the single updates of one stored Deployment: pause,    *)
(* unpause, executeUpdate, scaleUp and scaleDown called in any order on a  *)
(* Deployment in any stored state, another writer changing its replica     *)
(* count at any time.                                                      *)
(***************************************************************************)
InitOps ==
    /\ InitWith({"master-a"})
    /\ configmap.exists
    /\ secret.exists

\* the Deployment is found stored, in any state earlier passes and other writers left
OpsAdopt(g) ==
    /\ pc = "idle"
    /\ g \in declared
    /\ ~backend[g].exists
    /\ \E image \in Images, paused \in BOOLEAN, n \in 0..MaxReplicas, held \in BOOLEAN :
          /\ backend' = [backend EXCEPT ![g] =
                            [exists |-> TRUE, paused |-> paused,
                             template |-> newPodTemplateSpec(image), replicas |-> n,
                             revision |-> TRUE]]
          /\ node' = [node EXCEPT ![g].self.rv = TRUE, ![g].self.paused = held]
    /\ Forget
    /\ UNCHANGED <<pods, configmap, secret, inCluster, declared, pc, upd, polls, orch>>
    /\ UNCHANGED pureVars

OpsCall ==
    \E g \in Groups :
       \/ OpsAdopt(g)
       \/ pause(g)
       \/ unpause(g)
       \/ executeUpdate(g)
       \/ scaleUp(g)
       \/ scaleDown(g)
       \/ \E image \in Images : updateReference(g, image)

OpsStep ==
    \/ UpdateGet
    \/ UpdateRead
    \/ UpdateWriteFails
    \/ UpdateWriteConflict
    \/ UpdateWrite

OpsEnvironment == \E g \in Groups : OtherWriter(g)

NextOps == OpsCall \/ OpsStep \/ OpsEnvironment

SpecOps == InitOps /\ [][NextOps]_vars

(***************************************************************************)
(* Specification of the status of one node group: state called between     *)
(* create and progressNodeChanges, the credential bundle changing between  *)
(* the calls.                                                              *)
(***************************************************************************)
CredentialStates == SecretStates \cup {Bundle([k \in {"admin-cert"} |-> "t"])}

InitState ==
    /\ InitWith({"master-a"})
    /\ configmap.exists

StateCall ==
    \E g \in Groups :
       \/ state(g)
       \/ create(g)
       \/ progressNodeChanges(g)

StateStep ==
    \/ UpdateGet
    \/ UpdateRead
    \/ UpdateWriteFails
    \/ UpdateWriteConflict
    \/ UpdateWrite
    \/ waitForNodeRollout
    \/ waitForInitialRollout

StateEnvironment ==
    \/ \E g \in Groups : \/ ControllerSetsRevision(g)
                         \/ ControllerStartsPod(g)
    \/ \E b \in CredentialStates : SecretChange(b)

NextState == StateCall \/ StateStep \/ StateEnvironment

SpecState == InitState /\ [][NextState]_vars

(***************************************************************************)
(* Specification of the fingerprints: getConfigmapDataHash and             *)
(* getSecretDataHash called twice, on bundles of any content, the range    *)
(* loops visiting the keys in any order, a bundle rewritten between the    *)
(* two calls.                                                              *)
(***************************************************************************)
ConfigKeys == {"elasticsearch.yml", "index_settings", "log4j2.properties"}
SecretKeys == {"admin-cert", "admin-key"}

BundlesOver(keys, values) ==
    {NoBundle} \cup UNION {{Bundle(data) : data \in [present -> values]} : present \in SUBSET keys}

ConfigBundles == BundlesOver(ConfigKeys, ConfigValues)
SecretBundles == BundlesOver(SecretKeys, ConfigValues)

InitHash ==
    /\ InitWith({"master-a"})

\* the bundles as found, with any content
HashAdopt ==
    /\ pc = "idle"
    /\ fingerprints = << >>
    /\ configmap \in ConfigStates /\ secret \in SecretStates
    /\ configmap' \in ConfigBundles \ ConfigStates
    /\ secret' \in SecretBundles \ SecretStates
    /\ Forget
    /\ UNCHANGED <<backend, pods, node, inCluster, declared, pc, upd, polls, orch>>
    /\ UNCHANGED pureVars

HashConfigmap ==
    /\ pc = "idle"
    /\ Len(fingerprints) < 2
    /\ fingerprints # << >> => fingerprints[1].kind = "configmap"
    /\ \E order \in RangeOrders(DOMAIN configmap.data) :
          fingerprints' = Append(fingerprints,
                                 [kind |-> "configmap", bundle |-> configmap, order |-> order,
                                  hash |-> getConfigmapDataHashRange(configmap, order)])
    /\ UNCHANGED <<backend, pods, node, configmap, secret, inCluster, declared, pc, cur, op,
                   upd, polls, ret, calls, writes, pre, repeat, readFailed, nodeStatus, orch,
                   rendered, cancelled, helperVars>>

HashSecret ==
    /\ pc = "idle"
    /\ Len(fingerprints) < 2
    /\ fingerprints # << >> => fingerprints[1].kind = "secret"
    /\ \E order \in RangeOrders(DOMAIN secret.data) :
          fingerprints' = Append(fingerprints,
                                 [kind |-> "secret", bundle |-> secret, order |-> order,
                                  hash |-> getSecretDataHashRange(secret, order)])
    /\ UNCHANGED <<backend, pods, node, configmap, secret, inCluster, declared, pc, cur, op,
                   upd, polls, ret, calls, writes, pre, repeat, readFailed, nodeStatus, orch,
                   rendered, cancelled, helperVars>>

\* the bundle fingerprinted is rewritten between the two calls
HashRewrite ==
    /\ Len(fingerprints) = 1
    /\ \/ /\ fingerprints[1].kind = "configmap"
          /\ \E b \in ConfigBundles : ConfigChange(b)
       \/ /\ fingerprints[1].kind = "secret"
          /\ \E b \in SecretBundles : SecretChange(b)

NextHash == HashAdopt \/ HashConfigmap \/ HashSecret \/ HashRewrite

SpecHash == InitHash /\ [][NextHash]_vars

(***************************************************************************)
(* Specification of the node quorum that CreateOrUpdateConfigMaps renders  *)
(* into the cluster configuration, for any master count of the declared    *)
(* topology.                                                               *)
(***************************************************************************)
MaxMasterCount == 200

\* the values getMasterCount may return: NodeCount is a signed integer of the resource
MasterCounts == (0 - MaxMasterCount)..MaxMasterCount

\* Go's integer division, truncating toward zero
GoDiv(a, b) == IF a >= 0 THEN a \div b ELSE 0 - ((0 - a) \div b)

DigitChars == <<"0", "1", "2", "3", "4", "5", "6", "7", "8", "9">>

\* strconv.Itoa: the decimal digits, most significant first, after a minus sign for a
\* negative number
RECURSIVE FormatNat(_)
FormatNat(n) ==
    IF n < Len(DigitChars) THEN <<DigitChars[n + 1]>>
    ELSE FormatNat(n \div Len(DigitChars)) \o <<DigitChars[(n % Len(DigitChars)) + 1]>>

Itoa(n) == IF n < 0 THEN <<"-">> \o FormatNat(0 - n) ELSE FormatNat(n)

\* a quorum of half the masters rounded up
nodeQuorum_roundUp(masterNodeCount) == GoDiv(masterNodeCount + 1, 2)

nodeQuorum(masterNodeCount) == GoDiv(masterNodeCount, 2) + 1

InitQuorum ==
    /\ InitWith({"master-a"})
    /\ configmap.exists /\ secret.exists

CreateOrUpdateConfigMaps ==
    /\ pc = "idle"
    /\ \E masterNodeCount \in MasterCounts :
          rendered' = [masterNodeCount |-> masterNodeCount,
                       nodeQuorum      |-> Itoa(nodeQuorum(masterNodeCount))]
    /\ UNCHANGED <<backend, pods, node, configmap, secret, inCluster, declared, pc, cur, op,
                   upd, polls, ret, calls, writes, pre, repeat, readFailed, nodeStatus, orch,
                   fingerprints, cancelled, helperVars>>

NextQuorum == CreateOrUpdateConfigMaps

SpecQuorum == InitQuorum /\ [][NextQuorum]_vars

(***************************************************************************)
(* Specification of the waits: create and progressNodeChanges with their   *)
(* rollout waits, and the two membership waits, on a Deployment found in   *)
(* any stored state, the pods listed under the label of the group and the  *)
(* membership of the cluster changing at any time, the reconcile being     *)
(* cancelled from outside at any time.                                     *)
(***************************************************************************)
InitWait ==
    /\ InitWith({"master-a"})
    /\ configmap = Bundle([k \in {"elasticsearch.yml"} |-> "x"])
    /\ secret.exists

\* the pods a listing by the label node-name may return: pods of the current and of
\* earlier templates of the group
ListedPods == {PodOf(newPodTemplateSpec(image)) : image \in Images}

\* the Deployment is found stored, in any state earlier passes left
WaitAdopt(g) ==
    /\ pc = "idle"
    /\ g \in declared
    /\ ~backend[g].exists
    /\ \E image \in Images, paused \in BOOLEAN, n \in 0..MaxReplicas :
          /\ backend' = [backend EXCEPT ![g] =
                            [exists |-> TRUE, paused |-> paused,
                             template |-> newPodTemplateSpec(image), replicas |-> n,
                             revision |-> TRUE]]
          /\ node' = [node EXCEPT ![g].self.rv = TRUE]
    /\ Forget
    /\ UNCHANGED <<pods, configmap, secret, inCluster, declared, pc, upd, polls, orch>>
    /\ UNCHANGED pureVars

\* a pod carrying the label of the group appears in the listing, or leaves it
PodListingChange(g) ==
    /\ g \in declared
    /\ backend[g].exists
    /\ \E p \in ListedPods :
          pods' = [pods EXCEPT ![g] = IF p \in pods[g] THEN pods[g] \ {p} ELSE pods[g] \cup {p}]
    /\ Forget
    /\ UNCHANGED <<backend, node, configmap, secret, inCluster, declared, pc, upd, polls, orch>>
    /\ UNCHANGED pureVars

\* the reconcile is cancelled while an operation runs; no operation of the node reads it
Cancel ==
    /\ pc # "idle"
    /\ ~cancelled
    /\ cancelled' = TRUE
    /\ UNCHANGED <<backend, pods, node, configmap, secret, inCluster, declared, pc, cur, op,
                   upd, polls, ret, calls, writes, pre, repeat, readFailed, nodeStatus, orch>>
    /\ UNCHANGED pureVars

WaitCall ==
    \E g \in Groups :
       \/ WaitAdopt(g)
       \/ create(g)
       \/ progressNodeChanges(g)
       \/ waitForNodeRejoinCluster(g)
       \/ waitForNodeLeaveCluster(g)

WaitStep ==
    \/ UpdateGet
    \/ UpdateRead
    \/ UpdateWriteFails
    \/ UpdateWriteConflict
    \/ UpdateWrite
    \/ waitForNodeRollout
    \/ waitForInitialRollout
    \/ pollMembership

WaitEnvironment ==
    \/ \E g \in Groups : \/ ControllerSetsRevision(g)
                         \/ PodListingChange(g)
                         \/ MembershipChange(g)
    \/ Cancel

NextWait == WaitCall \/ WaitStep \/ WaitEnvironment

SpecWait == InitWait /\ [][NextWait]_vars

\* the goroutine of the reconcile keeps running: a step of the running operation that
\* can be taken is taken
SpecWaitFair == SpecWait /\ WF_vars(WaitStep)

(***************************************************************************)
(* Properties of progressNodeChanges and create.                           *)
(***************************************************************************)
Returned(name) == pc = "idle" /\ op = name

Steps(c) == [i \in 1..Len(c) |-> c[i].step]

IsPrefix(a, b) == Len(a) <= Len(b) /\ \A i \in 1..Len(a) : a[i] = b[i]

Has(seq, x) == \E i \in 1..Len(seq) : seq[i] = x

ProgressOrder == <<"executeUpdate", "unpause", "waitForNodeRollout", "pause", "refreshHashes">>

\* C1: whenever progressNodeChanges returns without error, the stored workload is paused
C1_PausedAfterProgress ==
    (Returned("progressNodeChanges") /\ ret = "ok" /\ backend[cur].exists)
        => backend[cur].paused

\* C3: inside one progressNodeChanges the steps are issued in the order executeUpdate,
\* unpause, waitForNodeRollout, pause, refreshHashes; a step is issued only after
\* every step before it returned success, and after a failed step nothing is issued;
\* the writes accepted by the backend follow the same order
C3_StepsInOrder ==
    op = "progressNodeChanges" =>
        /\ IsPrefix(Steps(calls), ProgressOrder)
        /\ \A i \in 1..Len(calls) : i < Len(calls) => calls[i].status = "ok"
        /\ pc # "idle" => calls # << >> /\ calls[Len(calls)].status = "running"
                          /\ calls[Len(calls)].step = pc
        /\ (pc = "idle" /\ ret = "ok") =>
               \/ calls = << >>
               \/ Steps(calls) = ProgressOrder /\ calls[Len(calls)].status = "ok"
        /\ (pc = "idle" /\ ret # "ok") =>
               calls # << >> /\ calls[Len(calls)].status \in {"failed", "timeout"}
        /\ IsPrefix(SelectSeq(writes, LAMBDA w : w # "executeUpdate"),
                    <<"setPaused_false", "setPaused_true">>)
        /\ Has(writes, "setPaused_true") => Has(Steps(calls), "pause")
        /\ Has(writes, "setPaused_false") => Has(Steps(calls), "unpause")

C3_Witness ==
    /\ Returned("progressNodeChanges") /\ ret = "ok"
    /\ Steps(calls) = ProgressOrder
    /\ Has(writes, "setPaused_true")

\* C4: a progressNodeChanges that directly follows a progressNodeChanges on the same
\* group, nothing else having happened in between and its own reads succeeding, issues
\* no backend update, whatever the first call did
C4_SecondCallIsNoop ==
    (op = "progressNodeChanges" /\ repeat # "none" /\ ~readFailed) => writes = << >>

\* C5: with the stored template equal to the desired one and the configuration
\* fingerprint unchanged, progressNodeChanges issues no update, no pause, no unpause
\* and returns success, whatever the number of pods
C5_NoopWhenTemplateMatches ==
    (/\ op = "progressNodeChanges"
     /\ ~readFailed
     /\ pre.backend.exists
     /\ ~ArePodTemplateSpecDifferent(pre.backend.template, node[cur].self.template)
     /\ \A p \in pods[cur] : ~ArePodSpecDifferent(p, node[cur].self.template, FALSE)
     /\ pre.configmapHash = getConfigmapDataHash(configmap)
     /\ pre.secretHash = getSecretDataHash(secret))
        => (pc = "idle" /\ ret = "ok" /\ calls = << >> /\ writes = << >>)

\* C6: when waitForNodeRollout times out, progressNodeChanges returns the timeout error,
\* issues no pause (the stored paused flag stays false) and keeps the recorded hashes
C6_TimeoutLeavesUnpaused ==
    (op = "progressNodeChanges" /\ Has(Steps(calls), "waitForNodeRollout")
        /\ calls[3].status = "timeout")
        => /\ pc = "idle" /\ ret = "timeout"
           /\ Len(calls) = 3
           /\ ~Has(writes, "setPaused_true")
           /\ backend[cur].exists /\ ~backend[cur].paused
           /\ node[cur].configmapHash = pre.configmapHash
           /\ node[cur].secretHash = pre.secretHash

C6_Witness ==
    /\ Returned("progressNodeChanges") /\ ret = "timeout"
    /\ pre.secretHash # getSecretDataHash(secret)

\* C7: a create that returns success for a group that was absent from the backend leaves
\* the workload stored paused, with the desired replica count and the desired template,
\* and the recorded hashes equal to the digests of the current bundles
C7_CreateResult ==
    (Returned("create") /\ ret = "ok" /\ ~pre.backend.exists)
        => /\ backend[cur].exists
           /\ backend[cur].paused
           /\ backend[cur].replicas = node[cur].replicas
           /\ backend[cur].replicas = node[cur].self.replicas
           /\ backend[cur].template = node[cur].self.template
           /\ node[cur].configmapHash = getConfigmapDataHash(configmap)
           /\ node[cur].secretHash = getSecretDataHash(secret)

C7_Witness ==
    /\ Returned("create") /\ ret = "ok" /\ ~pre.backend.exists
    /\ backend[cur].replicas = 0
    /\ secret.exists

\* C8 as stated: from the creation until create returns the backend never holds the
\* new workload unpaused
C8_CreatedPaused ==
    (op = "create" /\ Has(writes, "Create")) => (backend[cur].exists /\ backend[cur].paused)

\* C8: create hands the backend the object of the node as it is in memory; for a node
\* whose in-memory object is not paused, as populateReference builds it, the workload is
\* stored unpaused at the creation and stays unpaused until the pause that ends create
\* has been written
C8_CreatedUnpausedUntilPause ==
    (op = "create" /\ Has(writes, "Create") /\ ~pre.selfPaused)
        => /\ backend[cur].exists
           /\ backend[cur].paused <=> Has(writes, "setPaused_true")
           /\ Has(writes, "setPaused_true") => Has(Steps(calls), "pause")
           /\ (pc = "idle" /\ ret = "ok") => backend[cur].paused

C8_Witness ==
    /\ op = "create" /\ Has(writes, "Create") /\ ~pre.selfPaused
    /\ pc = "pause"
    /\ ~backend[cur].paused

\* C9: once the backend reported already-exists, create does not fail because of it and
\* pauses at once: the step it issues next is the pause, its first backend mutation is
\* the pause, and on success the stored workload is paused
C9_PauseRightAfterAlreadyExists ==
    (op = "create" /\ calls # << >> /\ calls[1] = [step |-> "Create", status |-> "exists"])
        => /\ Len(calls) >= 2
           /\ calls[2].step = "pause"
           /\ IsPrefix(writes, <<"setPaused_true">>)
           /\ (pc = "idle" /\ ret = "ok") => backend[cur].paused

\* C10: when the revision annotation is not seen within the bound of the initial wait,
\* create returns an error, records no hashes and issues no pause; hashes are
\* recorded only for a workload that carries the annotation
C10_NoBaselineWithoutRevision ==
    op = "create" =>
        /\ (Len(calls) >= 2 /\ calls[2] = [step |-> "waitForInitialRollout", status |-> "timeout"])
              => /\ pc = "idle" /\ ret = "timeout"
                 /\ Len(calls) = 2
                 /\ node[cur].configmapHash = pre.configmapHash
                 /\ node[cur].secretHash = pre.secretHash
                 /\ ~Has(writes, "setPaused_true")
        /\ Has(Steps(calls), "recordHashes") => (backend[cur].exists => backend[cur].revision)

C10_Witness ==
    /\ Returned("create") /\ ret = "timeout"
    /\ Has(writes, "Create")
    /\ pre.configmapHash # getConfigmapDataHash(configmap)

(***************************************************************************)
(* Properties of the orchestrator passes.                                  *)
(***************************************************************************)
Unpaused == {g \in MasterEligible \cap declared : backend[g].exists /\ ~backend[g].paused}

\* C2: over any sequence of orchestrator passes, never are two master-eligible groups
\* stored unpaused at the same time
C2_OneMasterUnpaused == Cardinality(Unpaused) <= 1

(***************************************************************************)
(* Properties of the single updates.                                       *)
(***************************************************************************)
\* the running operation gets a write accepted by the backend in this step
Writes(name) ==
    /\ op = name /\ pc # "idle"
    /\ Len(writes') = Len(writes) + 1

\* C11: after executeUpdate returned success on a Deployment whose stored template
\* differed from the desired one, the stored template is the desired one: isChanged
\* is false
C11_TemplateStored ==
    (/\ Returned("executeUpdate") /\ ret = "ok"
     /\ pre.backend.exists
     /\ ArePodTemplateSpecDifferent(pre.backend.template, node[cur].self.template))
        => ~isChanged(cur, FALSE)

\* C12: a write of executeUpdate changes no stored field other than the template: the
\* stored replica count and paused flag are the same before and after it, whatever the
\* node holds in memory, and executeUpdate makes no other write
C12_OnlyTemplateWritten ==
    /\ [](op = "executeUpdate" => IsPrefix(writes, <<"executeUpdate">>))
    /\ [][Writes("executeUpdate") =>
             /\ backend'[cur].exists
             /\ backend'[cur].replicas = backend[cur].replicas
             /\ backend'[cur].paused = backend[cur].paused
             /\ backend'[cur].revision = backend[cur].revision]_vars

C12_Witness ==
    /\ Returned("executeUpdate") /\ ret = "ok"
    /\ writes = <<"executeUpdate">>
    /\ backend[cur].replicas # node[cur].self.replicas
    /\ backend[cur].paused # node[cur].self.paused

\* C13: after scaleUp returned success the stored replica count is the node's desired
\* count, after scaleDown returned success it is zero, whatever it was before
C13_ReplicasStored ==
    /\ (Returned("scaleUp") /\ ret = "ok") => backend[cur].replicas = node[cur].replicas
    /\ (Returned("scaleDown") /\ ret = "ok") => backend[cur].replicas = 0

\* C14: after pause returned success the stored paused flag is true, after unpause
\* returned success it is false, whatever it was before, and the flag the node holds in
\* memory is the stored one; a write of pause or unpause changes no other stored field
C14_PausedStored ==
    /\ []((Returned("pause") /\ ret = "ok")
             => (backend[cur].exists /\ backend[cur].paused /\ node[cur].self.paused))
    /\ []((Returned("unpause") /\ ret = "ok")
             => (backend[cur].exists /\ ~backend[cur].paused /\ ~node[cur].self.paused))
    /\ [][(Writes("pause") \/ Writes("unpause")) =>
             /\ backend'[cur].exists
             /\ backend'[cur].template = backend[cur].template
             /\ backend'[cur].replicas = backend[cur].replicas
             /\ backend'[cur].revision = backend[cur].revision]_vars

C14_Witness ==
    /\ Returned("unpause") /\ ret = "ok"
    /\ ~pre.backend.paused
    /\ node[cur].self.template # backend[cur].template
    /\ node[cur].self.replicas # backend[cur].replicas

(***************************************************************************)
(* Properties of state.                                                    *)
(***************************************************************************)
\* C15: state reports scheduledForCertRedeploy exactly when a secret hash was recorded
\* and the current secret hash differs from it; with no hash recorded it records the
\* current one and does not set the flag; a recorded hash is left as it is
C15_CertRedeployFlag ==
    Returned("state") =>
        /\ nodeStatus.scheduledForCertRedeploy
              <=> (pre.secretHash # << >> /\ getSecretDataHash(secret) # pre.secretHash)
        /\ pre.secretHash = << >> => node[cur].secretHash = getSecretDataHash(secret)
        /\ pre.secretHash # << >> => node[cur].secretHash = pre.secretHash

C15_Witness ==
    /\ Returned("state")
    /\ pre.secretHash = << >>
    /\ node[cur].secretHash # << >>
    /\ ~nodeStatus.scheduledForCertRedeploy

\* C16: while the recorded secret hash differs from the hash of the current credential
\* bundle, every state call reports scheduledForCertRedeploy and leaves the recorded
\* hash alone; a recorded hash changes only when create records the hashes or a
\* rollout of progressNodeChanges refreshes them, and a refresh records the current hash
C16_FlagUntilRefresh ==
    /\ []((Returned("state") /\ pre.secretHash # << >>
              /\ getSecretDataHash(secret) # pre.secretHash)
             => (nodeStatus.scheduledForCertRedeploy /\ node[cur].secretHash = pre.secretHash))
    /\ []((Returned("progressNodeChanges") /\ Has(Steps(calls), "refreshHashes") /\ ret = "ok")
             => node[cur].secretHash = getSecretDataHash(secret))
    /\ [][\A g \in Groups :
             (node[g].secretHash # << >> /\ node'[g].secretHash # node[g].secretHash)
                => /\ op' \in {"create", "progressNodeChanges"}
                   /\ \/ Has(Steps(calls'), "recordHashes")
                      \/ Has(Steps(calls'), "refreshHashes")]_vars

C16_Witness ==
    /\ Returned("state")
    /\ repeat = "ok"
    /\ pre.secretHash # << >>
    /\ secret.exists
    /\ nodeStatus.scheduledForCertRedeploy

(***************************************************************************)
(* Properties of the fingerprints.                                         *)
(***************************************************************************)
BothHashed == Len(fingerprints) = 2

\* C17: the fingerprint depends only on the content of the bundle: two calls on the
\* same bundle return the same digest, whatever the order in which each of them
\* iterated over the keys.
C17_SameContentSameDigest ==
    BothHashed /\ fingerprints[1].bundle = fingerprints[2].bundle
        => fingerprints[1].hash = fingerprints[2].hash

C17_Witness ==
    /\ BothHashed
    /\ fingerprints[1].kind = "configmap"
    /\ fingerprints[1].bundle = fingerprints[2].bundle
    /\ fingerprints[1].order # fingerprints[2].order
    /\ Len(fingerprints[1].hash) >= 2
    /\ fingerprints[1].hash[1] # fingerprints[1].hash[2]
    /\ fingerprints[1].hash = fingerprints[2].hash

\* the keys of a fingerprinted bundle that count, and their values in sorted key order
NonVolatile(rec) ==
    IF rec.kind = "configmap" THEN DOMAIN rec.bundle.data \ {"index_settings"}
    ELSE DOMAIN rec.bundle.data

ValuesInKeyOrder(rec) ==
    LET keys == SelectSeq(KeyOrder, LAMBDA k : k \in NonVolatile(rec))
    IN  [i \in 1..Len(keys) |-> rec.bundle.data[keys[i]]]

SameKeysAndValues(r1, r2) ==
    /\ NonVolatile(r1) = NonVolatile(r2)
    /\ \A k \in NonVolatile(r1) : r1.bundle.data[k] = r2.bundle.data[k]

BothFetched ==
    BothHashed /\ fingerprints[1].bundle.exists /\ fingerprints[2].bundle.exists

\* C18 as stated: two bundles have equal fingerprints if and only if they have the
\* same non-volatile keys with the same value under each key; a renamed key changes
\* the fingerprint.
C18_EqualIffSameKeysAndValues ==
    BothFetched =>
        (fingerprints[1].hash = fingerprints[2].hash
            <=> SameKeysAndValues(fingerprints[1], fingerprints[2]))

\* C18 amended: the keys are not part of the digest.  Two bundles have equal
\* fingerprints if and only if the values of their non-volatile keys, taken in sorted
\* key order, are the same sequence.  So a changed value, an added or a removed
\* non-volatile key changes the fingerprint, a change of the volatile key alone does
\* not, and neither does a renaming that keeps the values in the same sorted position.
C18_EqualIffSameValuesInKeyOrder ==
    BothFetched =>
        LET r1 == fingerprints[1]
            r2 == fingerprints[2]
        IN  /\ r1.hash = r2.hash <=> ValuesInKeyOrder(r1) = ValuesInKeyOrder(r2)
            /\ SameKeysAndValues(r1, r2) => r1.hash = r2.hash
            /\ (/\ NonVolatile(r1) = NonVolatile(r2)
                /\ \E k \in NonVolatile(r1) : r1.bundle.data[k] # r2.bundle.data[k])
                   => r1.hash # r2.hash
            /\ Cardinality(NonVolatile(r1)) # Cardinality(NonVolatile(r2)) => r1.hash # r2.hash

\* a key renamed, the fingerprint unchanged
C18_Witness ==
    /\ BothFetched
    /\ NonVolatile(fingerprints[1]) # NonVolatile(fingerprints[2])
    /\ NonVolatile(fingerprints[1]) # {}
    /\ fingerprints[1].hash = fingerprints[2].hash

\* C19: fingerprinting a bundle that cannot be fetched returns the empty digest as a
\* normal value, for the ConfigMap and for the Secret.
C19_NotFoundGivesEmptyDigest ==
    \A i \in 1..Len(fingerprints) :
        ~fingerprints[i].bundle.exists => fingerprints[i].hash = << >>

(***************************************************************************)
(* Properties of the rendered quorum.                                      *)
(***************************************************************************)
DigitValue(c) == CHOOSE d \in 0..(Len(DigitChars) - 1) : DigitChars[d + 1] = c

\* the number a string of decimal digits denotes
RECURSIVE ParseNat(_)
ParseNat(digits) ==
    IF digits = << >> THEN 0
    ELSE ParseNat(SubSeq(digits, 1, Len(digits) - 1)) * Len(DigitChars)
            + DigitValue(digits[Len(digits)])

Quorum == ParseNat(rendered.nodeQuorum)

Rendered == rendered.nodeQuorum # << >>

\* C20: for every master count >= 0 the rendered node quorum is the decimal numeral of
\* floor(masterCount/2) + 1; for every master count >= 1 it is the smallest strict
\* majority: twice the quorum exceeds the master count, the quorum is at most the
\* master count, and no smaller number is a strict majority.
C20_QuorumIsSmallestMajority ==
    Rendered /\ rendered.masterNodeCount >= 0 =>
        /\ \A i \in 1..Len(rendered.nodeQuorum) :
              \E d \in 1..Len(DigitChars) : rendered.nodeQuorum[i] = DigitChars[d]
        /\ Len(rendered.nodeQuorum) > 1 => rendered.nodeQuorum[1] # "0"
        /\ Quorum = (rendered.masterNodeCount \div 2) + 1
        /\ rendered.masterNodeCount >= 1 =>
              /\ 2 * Quorum > rendered.masterNodeCount
              /\ Quorum <= rendered.masterNodeCount
              /\ 2 * (Quorum - 1) <= rendered.masterNodeCount

C20_Witness ==
    /\ Rendered
    /\ rendered.masterNodeCount = 20
    /\ rendered.nodeQuorum = <<"1", "1">>

(***************************************************************************)
(* Properties of the waits.                                                *)
(***************************************************************************)
Matches(p, g) == ~ArePodSpecDifferent(p, node[g].self.template, FALSE)

\* the step taken is a poll of the running wait loop
Polls(wait) == pc = wait /\ (pc' # pc \/ polls' # polls)

\* C21: waitForNodeRollout returns success only when every listed pod of the group
\* matches the desired template; while a listed pod differs, a poll made before the
\* deadline keeps the wait going.
C21_RolloutWaitNeedsEveryPod ==
    [][Polls("waitForNodeRollout") =>
          /\ pc' = "pause" => \A p \in pods[cur] : Matches(p, cur)
          /\ (polls < RolloutPolls /\ \E p \in pods[cur] : ~Matches(p, cur))
                => (pc' = pc /\ polls' = polls + 1)]_vars

MembershipWaits == {"waitForNodeRejoinCluster", "waitForNodeLeaveCluster"}

\* what the membership client has to report for the wait to be over
Awaited(wait) == wait = "waitForNodeRejoinCluster"

\* C22: a poll of waitForNodeRejoinCluster returns success exactly when the membership
\* client reports the node present, a poll of waitForNodeLeaveCluster exactly when it
\* reports the node absent, unless the client fails; a failure of the client ends the
\* wait at that poll with an error; a poll that sees the node not yet as awaited keeps
\* the wait going; past the bound the wait returns the timeout error.
C22_MembershipWaitResult ==
    [][\A wait \in MembershipWaits :
          Polls(wait) =>
             /\ pc' = "idle" \/ (pc' = pc /\ polls' = polls + 1)
             /\ pc' = "idle" => ret' \in {"ok", "error", "timeout"}
             /\ ret' = "ok" => (polls < MembershipPolls /\ inCluster[cur] = Awaited(wait))
             /\ (polls < MembershipPolls /\ inCluster[cur] = Awaited(wait))
                   => (pc' = "idle" /\ ret' \in {"ok", "error"})
             /\ ret' = "error" => (polls < MembershipPolls /\ pc' = "idle")
             /\ pc' = pc => (polls < MembershipPolls /\ inCluster[cur] # Awaited(wait))
             /\ ret' = "timeout" <=> polls >= MembershipPolls]_vars

C22_Witness ==
    /\ Returned("waitForNodeLeaveCluster") /\ ret = "ok"
    /\ ~inCluster[cur]
    /\ repeat = "timeout"

RolloutWaits == {"waitForInitialRollout", "waitForNodeRollout"}

Waits == RolloutWaits \cup MembershipWaits

\* the polls the running wait may make before its deadline
PollsOf(wait) == IF wait \in RolloutWaits THEN RolloutPolls ELSE MembershipPolls

TimesIssued(step) == Len(SelectSeq(calls, LAMBDA c : c.step = step))

\* C23: every wait ends.  A wait makes no more polls than its deadline allows, the
\* membership waits as many more than the rollout waits as their deadline is longer;
\* a poll never starts the count over; past the deadline the call returns the timeout
\* error; one call enters each of its waits at most once; and the reconcile goroutine
\* running, a wait that was entered is eventually left.
C23_WaitsEnd ==
    /\ [](pc \in Waits => polls <= PollsOf(pc))
    /\ [](MembershipPolls * RolloutTimeout = RolloutPolls * MembershipTimeout)
    /\ [](\A wait \in Waits : TimesIssued(wait) <= 1)
    /\ [][\A wait \in Waits :
             Polls(wait) =>
                /\ pc' = pc => polls' = polls + 1
                /\ polls >= PollsOf(wait) => (pc' = "idle" /\ ret' = "timeout")
                /\ ret' = "timeout" => polls >= PollsOf(wait)]_vars
    /\ (pc \in Waits) ~> (pc \notin Waits)

\* a rollout wait at its last poll before the deadline
C23_Witness ==
    /\ pc = "waitForNodeRollout"
    /\ polls = RolloutPolls
    /\ pods[cur] # {}

(***************************************************************************)
(* Properties of deployment.Update.                                        *)
(***************************************************************************)
\* the deployment.Update in progress gets a write accepted by the backend in this step
UpdateWrites == upd.stage = "write" /\ Len(writes') = Len(writes) + 1

\* C24: every attempt of an Update reads the stored object afresh, and a write is
\* accepted only for a read that is still the stored object; what is stored after the
\* write is the mutation of the object stored right before it.  So a write of pause or
\* unpause keeps the replica count another writer stored in the meantime, and a write
\* of executeUpdate keeps the paused flag and the replica count.
C24_WriteOnFreshRead ==
    /\ [][(upd.stage = "read" /\ upd'.stage = "write") => upd'.read = backend[cur]]_vars
    /\ [][UpdateWrites =>
             /\ upd.read = backend[cur]
             /\ backend'[cur] = Mutate(upd.kind, upd.arg, backend[cur], node[cur].self)
             /\ backend'[cur].replicas = backend[cur].replicas
             /\ upd.kind = "executeUpdate" => backend'[cur].paused = backend[cur].paused]_vars

\* pause returned success and the replica count another writer stored during the call
\* is still stored
C24_Witness ==
    /\ Returned("pause") /\ ret = "ok"
    /\ backend[cur].paused
    /\ backend[cur].replicas # pre.backend.replicas

\* the attempt of the deployment.Update in progress ends in this step without a write
AttemptFails == upd.stage = "write" /\ upd'.stage # "write" /\ writes' = writes

\* C25: an Update makes at most RetrySteps attempts.  An attempt that fails is retried
\* only when it met a conflict and was not the last attempt; when the last attempt
\* meets a conflict, and when an attempt fails otherwise, the call returns an error,
\* and a failed attempt leaves the stored object as it was.
C25_BoundedRetry ==
    /\ [](upd.attempts < RetrySteps)
    /\ [][AttemptFails =>
             /\ backend' = backend
             /\ pc' = "idle" \/ pc' = pc
             /\ pc' = "idle" => ret' = "error"
             /\ pc' = pc => /\ upd.stale
                            /\ upd.attempts + 1 < RetrySteps
                            /\ upd'.stage = "read"
                            /\ upd'.attempts = upd.attempts + 1
             /\ ~upd.stale => pc' = "idle"
             /\ upd.attempts + 1 = RetrySteps => pc' = "idle"]_vars

\* the last attempt has met a conflict, every attempt before it too
C25_Witness ==
    /\ op = "pause"
    /\ upd.stage = "write" /\ upd.stale
    /\ upd.attempts + 1 = RetrySteps
    /\ writes = << >>

\* the compare function of the deployment.Update in progress, on the object it read first
Compared == Cmp(upd.kind, backend[cur], node[cur].self)

\* C26: deployment.Update goes on to write the mutated Deployment when the compare
\* function returns true for (current, desired); when it returns false the call makes
\* no attempt to write and returns without error.
C26_WritesWhenCompareTrue ==
    [][(upd.stage = "get" /\ upd' # upd /\ backend[cur].exists) =>
          /\ upd'.stage = "read" => Compared
          /\ (pc' = "idle" /\ ret' = "ok") => ~Compared]_vars

(***************************************************************************)
(* Properties of the rejoin wait between the groups of a pass.             *)
(***************************************************************************)
CycleOps == {"create", "progressNodeChanges"}

\* an operation is started in this step
Starts(names) == pc = "idle" /\ pc' # "idle" /\ op' \in names

\* an operation returns in this step
Returns(names) == pc # "idle" /\ pc' = "idle" /\ op \in names

\* the pass leaves the group it is at
Leaves == orch.running /\ (~orch'.running \/ orch'.next # orch.next)

C28_ReadFailureSurfaces ==
    (op = "progressNodeChanges" /\ readFailed)
        => (pc = "idle" /\ ret = "error" /\ calls = << >> /\ writes = << >>)

(***************************************************************************)
(* Properties of the cancellation of a reconcile.                          *)
(***************************************************************************)
\* C29: once the reconcile is cancelled, a wait in progress ends at its next poll, before
\* its deadline, and the stored paused flag and replica count stay as they are.
C29_CancelEndsWait ==
    [][\A wait \in Waits :
          (cancelled /\ Polls(wait)) =>
             /\ pc' = "idle"
             /\ backend'[cur].paused = backend[cur].paused
             /\ backend'[cur].replicas = backend[cur].replicas]_vars

(***************************************************************************)
(* Properties of the recorded fingerprints.                                *)
(***************************************************************************)
\* C30: whenever progressNodeChanges returns success, its reads having succeeded and
\* the configuration bundle being there, the recorded configuration fingerprint and
\* the recorded credential fingerprint are the digests of the current bundles.
C30_FreshHashesOnSuccess ==
    (Returned("progressNodeChanges") /\ ret = "ok" /\ ~readFailed /\ configmap.exists)
        => /\ node[cur].configmapHash = getConfigmapDataHash(configmap)
           /\ node[cur].secretHash = getSecretDataHash(secret)

(***************************************************************************)
(* Properties of a credential bundle that disappears.                      *)
(***************************************************************************)
\* state has returned for a node that had a credential fingerprint recorded, the
\* credential bundle being gone
(***************************************************************************)
(* The create-or-update helpers: c.Create, then for an object that exists  *)
(* already c.Get and the compare function, then up to RetrySteps attempts  *)
(* of c.Get, mutation and c.Update.                                        *)
(***************************************************************************)
\* resource versions the API server hands out in one run
MaxVersion == 3

\* everything but the stored configuration bundle and what the helpers work on
nodeVars ==
    <<backend, pods, node, secret, inCluster, declared, pc, cur, op, upd, polls, ret, calls,
      writes, pre, repeat, readFailed, nodeStatus, orch, fingerprints, rendered, cancelled>>

\* the configuration bundle the nodes fingerprint is the stored ConfigMap
ConfigmapOf(s) ==
    IF s.kind # "configmap" THEN configmap
    ELSE IF s.exists THEN Bundle(s.copied) ELSE NoBundle

\* the helper returns; CreateOrUpdateConfigMaps goes on with the condition
Finish(frame, res) ==
    [frame EXCEPT !.pc = IF stored.kind = "configmap" THEN "done" ELSE "idle", !.res = res,
                  !.touched = FALSE]

Finished(c, res) == Finish(helper[c], res)

\* the call of a helper with a desired object just built by its constructor
CreateOrUpdate(c, desired) ==
    /\ helper[c].pc = "idle"
    /\ helper' = [helper EXCEPT ![c] =
                     [NoHelper EXCEPT !.pc = "create", !.desired = desired,
                                      !.prev = IF helper[c].touched THEN NoCall
                                               ELSE [res |-> helper[c].res,
                                                     desired |-> helper[c].desired]]]
    /\ UNCHANGED <<stored, instances, listed, conditions, contract, configmap>>
    /\ UNCHANGED nodeVars

HelperCreate(c) ==
    /\ helper[c].pc = "create"
    /\ \/ /\ helper' = [helper EXCEPT ![c] = Finished(c, "error")]
          /\ UNCHANGED stored
       \/ /\ ~stored.exists
          /\ stored.resourceVersion < MaxVersion
          /\ stored' = Written(stored, helper[c].desired)
          /\ helper' = [helper EXCEPT ![c] = Finished(c, "created")]
       \/ /\ stored.exists
          /\ helper' = [helper EXCEPT ![c].pc = "get"]
          /\ UNCHANGED stored
    /\ configmap' = ConfigmapOf(stored')
    /\ UNCHANGED <<instances, listed, conditions, contract>>
    /\ UNCHANGED nodeVars

HelperGet(c) ==
    /\ helper[c].pc = "get"
    /\ \E getFails \in BOOLEAN :
          helper' = [helper EXCEPT ![c] =
                        IF getFails \/ ~stored.exists
                        THEN Finished(c, "error")
                        ELSE IF CompareOf(stored.kind, Got(stored), helper[c].desired)
                             THEN [Finished(c, "unchanged") EXCEPT !.current = Got(stored)]
                             ELSE [helper[c] EXCEPT !.pc = "retryGet", !.current = Got(stored)]]
    /\ UNCHANGED <<stored, instances, listed, conditions, contract, configmap>>
    /\ UNCHANGED nodeVars

HelperRetryGet(c) ==
    /\ helper[c].pc = "retryGet"
    /\ \E getFails \in BOOLEAN :
          helper' = [helper EXCEPT ![c] =
                        IF getFails \/ ~stored.exists
                        THEN Finished(c, "error")
                        ELSE [helper[c] EXCEPT !.pc = "update", !.current = Got(stored),
                                               !.readVersion = stored.resourceVersion,
                                               !.submitted = NoObject]]
    /\ UNCHANGED <<stored, instances, listed, conditions, contract, configmap>>
    /\ UNCHANGED nodeVars

\* the frame of the helper after it issued the c.Update of the attempt
Issued(c, object) ==
    [helper[c] EXCEPT !.updates = helper[c].updates + 1, !.submitted = object]

HelperUpdate(c) ==
    /\ helper[c].pc = "update"
    /\ LET object == Submitted(stored.kind, helper[c].current, helper[c].desired)
       IN  \/ /\ helper' = [helper EXCEPT ![c] = Finish(Issued(c, object), "error")]
              /\ UNCHANGED stored
           \/ /\ Accepts(stored, object)
              /\ stored.resourceVersion < MaxVersion
              /\ stored' = Written(stored, object)
              /\ helper' = [helper EXCEPT ![c] = Finish(Issued(c, object), "updated")]
           \/ /\ stored.exists
              /\ ~Accepts(stored, object)
              /\ helper' = [helper EXCEPT ![c] =
                               IF RetryOnConflict_exhausted(helper[c].attempts)
                               THEN Finish(Issued(c, object), "error")
                               ELSE [Issued(c, object) EXCEPT !.pc = "retryGet",
                                                              !.attempts = helper[c].attempts + 1]]
              /\ UNCHANGED stored
    /\ configmap' = ConfigmapOf(stored')
    /\ UNCHANGED <<instances, listed, conditions, contract>>
    /\ UNCHANGED nodeVars

\* an external change: the calls made before it are not the calls just before the next ones
Disturbed == [c \in Reconciles |-> [helper[c] EXCEPT !.prev = NoCall, !.touched = TRUE]]

\* someone else writes the stored object
HelperOtherWriter ==
    /\ stored.exists
    /\ stored.resourceVersion < MaxVersion
    /\ \E copied \in Contents, kept \in KeptValues :
          /\ <<copied, kept>> # <<stored.copied, stored.kept>>
          /\ stored' = Written(stored, NewObject(copied, kept))
    /\ helper' = Disturbed
    /\ configmap' = ConfigmapOf(stored')
    /\ UNCHANGED <<instances, listed, conditions, contract>>
    /\ UNCHANGED nodeVars

\* someone else deletes the stored object
HelperDelete ==
    /\ stored.exists
    /\ stored' = [stored EXCEPT !.exists = FALSE]
    /\ helper' = Disturbed
    /\ configmap' = ConfigmapOf(stored')
    /\ UNCHANGED <<instances, listed, conditions, contract>>
    /\ UNCHANGED nodeVars

\* CreateOrUpdateConfigMaps after configmap.CreateOrUpdate returned
updateConditionWithRetry(c) ==
    /\ helper[c].pc = "done"
    /\ helper' = [helper EXCEPT ![c].pc = "idle"]
    /\ IF helper[c].res = "error"
       THEN UNCHANGED conditions
       ELSE \E updateFails \in BOOLEAN :
               conditions' = IF updateFails THEN conditions
                             ELSE [conditions EXCEPT !.UpdatingSettings =
                                      IF helper[c].res = "updated" THEN "True" ELSE "False"]
    /\ UNCHANGED <<stored, instances, listed, contract, configmap>>
    /\ UNCHANGED nodeVars

(***************************************************************************)
(* Specification of the helpers: one reconcile calls the helper of one     *)
(* kind again and again, with any desired object; other writers change or  *)
(* delete the stored object.                                               *)
(***************************************************************************)
InitHelpers ==
    /\ InitWith({"master-a"})
    /\ configmap = NoBundle /\ secret = NoBundle
    /\ node["master-a"].replicas = 0

\* the kind of the object the run is about
HelpersAdopt ==
    /\ stored.kind = "none"
    /\ \E kind \in Kinds : stored' = [stored EXCEPT !.kind = kind]
    /\ UNCHANGED <<helper, instances, listed, conditions, contract, configmap>>
    /\ UNCHANGED nodeVars

HelpersCall ==
    /\ stored.kind # "none"
    /\ \E copied \in Contents, kept \in KeptValues :
          CreateOrUpdate("es-a", NewObject(copied, kept))

HelpersStep ==
    \E c \in Reconciles :
       \/ HelperCreate(c)
       \/ HelperGet(c)
       \/ HelperRetryGet(c)
       \/ HelperUpdate(c)
       \/ updateConditionWithRetry(c)

HelpersEnvironment == HelperOtherWriter \/ HelperDelete

NextHelpers == HelpersAdopt \/ HelpersCall \/ HelpersStep \/ HelpersEnvironment

SpecHelpers == InitHelpers /\ [][NextHelpers]_vars

StateAfterDisappearance ==
    Returned("state") /\ pre.secretHash # << >> /\ ~secret.exists

\* C31 as stated: state called after the credential bundle disappeared, a fingerprint
\* having been recorded, does not report scheduledForCertRedeploy.
C31_DisappearanceNotFlagged ==
    StateAfterDisappearance => ~nodeStatus.scheduledForCertRedeploy

\* C31: state called after the credential bundle disappeared, a fingerprint having been
\* recorded, reports scheduledForCertRedeploy, the empty digest differing from the
\* recorded one, and keeps the recorded fingerprint; the empty digest is taken as the
\* recorded one by the refresh that ends a rollout, and by state only when nothing was
\* recorded, without the flag.
C31_DisappearanceFlagged ==
    /\ StateAfterDisappearance
          => (nodeStatus.scheduledForCertRedeploy /\ node[cur].secretHash = pre.secretHash)
    /\ (Returned("state") /\ pre.secretHash = << >> /\ ~secret.exists)
          => (~nodeStatus.scheduledForCertRedeploy /\ node[cur].secretHash = << >>)
    /\ (Returned("progressNodeChanges") /\ ret = "ok" /\ Has(Steps(calls), "refreshHashes")
           /\ ~secret.exists)
          => node[cur].secretHash = << >>

C31_Witness ==
    /\ StateAfterDisappearance
    /\ nodeStatus.scheduledForCertRedeploy
    /\ repeat = "none"

(***************************************************************************)
(* Properties of the decision of create.                                   *)
(***************************************************************************)
\* C32: whenever the workload is absent from the backend when create is called, the
\* first thing create does is a backend create, whatever resource version the object
\* the node holds in memory carries.
C32_CreateDecidedFromBackend ==
    (op = "create" /\ ~pre.backend.exists)
        => (calls # << >> /\ calls[1].step = "Create")

(***************************************************************************)
(* Specification of the rollout cycle of one node group: the Deployment is *)
(* stored with one template and the node desires another one; every pass   *)
(* of the reconcile calls progressNodeChanges again; no backend call fails *)
(* and the deployment controller does its work on the stored Deployment.   *)
(***************************************************************************)
InitCycle ==
    /\ InitWith({"master-a"})
    /\ configmap.exists
    /\ secret.exists

\* the Deployment of an earlier pass is found stored, with the pod the last rollout left,
\* and the desired template is another
CycleAdopt(g) ==
    /\ pc = "idle"
    /\ g \in declared
    /\ ~backend[g].exists
    /\ \E image \in Images, left \in Images, paused \in BOOLEAN, n \in 1..MaxReplicas,
          running \in BOOLEAN :
          /\ node[g].self.template # newPodTemplateSpec(image)
          /\ backend' = [backend EXCEPT ![g] =
                            [exists |-> TRUE, paused |-> paused,
                             template |-> newPodTemplateSpec(image), replicas |-> n,
                             revision |-> running]]
          /\ pods' = [pods EXCEPT ![g] = IF running THEN {PodOf(newPodTemplateSpec(left))}
                                                   ELSE {}]
          /\ node' = [node EXCEPT ![g].self.rv = TRUE, ![g].self.paused = paused,
                                  ![g].self.replicas = n, ![g].replicas = n]
    /\ Forget
    /\ UNCHANGED <<configmap, secret, inCluster, declared, pc, upd, polls, orch>>
    /\ UNCHANGED pureVars

\* the reconcile calls progressNodeChanges, and its reads succeed
CycleProgress == \E g \in Groups : backend[g].exists /\ progressNodeChanges(g) /\ ~readFailed'

CycleUpdateGet == UpdateGet /\ ret' # "error"

CycleUpdateRead == UpdateRead /\ ret' # "error"

CycleUpdateWriteConflict == UpdateWriteConflict /\ ret' # "error"

CycleCall == (\E g \in Groups : CycleAdopt(g)) \/ CycleProgress

CycleStep ==
    \/ CycleUpdateGet
    \/ CycleUpdateRead
    \/ CycleUpdateWriteConflict
    \/ UpdateWrite
    \/ waitForNodeRollout

CycleEnvironment ==
    \E g \in Groups : \/ ControllerSetsRevision(g)
                      \/ ControllerStopsPod(g)
                      \/ ControllerStartsPod(g)

NextCycle == CycleCall \/ CycleStep \/ CycleEnvironment

SpecCycle == InitCycle /\ [][NextCycle]_vars

\* the running operation goes on, the reconcile comes back, the controller does its work
SpecCycleFair ==
    /\ SpecCycle
    /\ WF_vars(CycleStep)
    /\ WF_vars(CycleCall)
    /\ WF_vars(CycleEnvironment)

(***************************************************************************)
(* Properties of the rollout cycle.                                        *)
(***************************************************************************)
TemplateDiffers ==
    \E g \in declared :
       backend[g].exists /\ ArePodTemplateSpecDifferent(backend[g].template, node[g].self.template)

CycleCompleted ==
    /\ Returned("progressNodeChanges")
    /\ ret = "ok"
    /\ ~ArePodTemplateSpecDifferent(backend[cur].template, node[cur].self.template)
    /\ backend[cur].paused

\* C33: when the desired template differs from the stored one, no backend call fails and
\* the controller runs the pods of the stored Deployment, progressNodeChanges, called
\* again on every pass, eventually returns success with the stored template equal to the
\* desired one and the group paused.
C33_RolloutCompletes == TemplateDiffers ~> CycleCompleted

(***************************************************************************)
(* Specification of the proxy cluster role binding: the reconciles of the  *)
(* clusters run CreateOrUpdateRBAC side by side, each listing the          *)
(* Elasticsearch instances and writing their service accounts as the       *)
(* subjects of the one binding elasticsearch-proxy, while instances are    *)
(* created and deleted.                                                    *)
(***************************************************************************)
\* rbac.NewClusterRoleBinding("elasticsearch-proxy", "elasticsearch-proxy", subjects)
NewClusterRoleBinding(subjects) == NewObject(subjects, "elasticsearch-proxy")

InitRBAC ==
    /\ InitWith({"master-a"})
    /\ configmap = NoBundle /\ secret = NoBundle
    /\ node["master-a"].replicas = 0

\* the instances that exist when the run starts
RBACAdopt ==
    /\ stored.kind = "none"
    /\ stored' = [stored EXCEPT !.kind = "clusterrolebinding"]
    /\ \E existing \in SUBSET Reconciles : existing # {} /\ instances' = existing
    /\ UNCHANGED <<helper, listed, conditions, contract, configmap>>
    /\ UNCHANGED nodeVars

\* CreateOrUpdateRBAC up to the listing: the cluster roles and the metrics binding
CreateOrUpdateRBAC(c) ==
    /\ stored.kind = "clusterrolebinding"
    /\ c \in instances
    /\ helper[c].pc = "idle"
    /\ \E earlierFails \in BOOLEAN :
          helper' = [helper EXCEPT ![c] =
                        IF earlierFails THEN [NoHelper EXCEPT !.res = "error"]
                        ELSE [NoHelper EXCEPT !.pc = "list"]]
    /\ UNCHANGED <<stored, instances, listed, conditions, contract, configmap>>
    /\ UNCHANGED nodeVars

\* er.client.List(esList), and the subjects built from its items
ListInstances(c) ==
    /\ helper[c].pc = "list"
    /\ \E listFails \in BOOLEAN :
          IF listFails
          THEN /\ helper' = [helper EXCEPT ![c].pc = "idle", ![c].res = "error"]
               /\ UNCHANGED listed
          ELSE /\ helper' = [helper EXCEPT ![c].pc = "create", ![c].subjects = instances,
                                           ![c].desired = NewClusterRoleBinding(instances)]
               /\ listed' = instances
    /\ UNCHANGED <<stored, instances, conditions, contract, configmap>>
    /\ UNCHANGED nodeVars

InstanceCreated(i) ==
    /\ stored.kind = "clusterrolebinding"
    /\ i \notin instances
    /\ instances' = instances \cup {i}
    /\ UNCHANGED <<stored, helper, listed, conditions, contract, configmap>>
    /\ UNCHANGED nodeVars

InstanceDeleted(i) ==
    /\ i \in instances
    /\ instances' = instances \ {i}
    /\ UNCHANGED <<stored, helper, listed, conditions, contract, configmap>>
    /\ UNCHANGED nodeVars

RBACCall == RBACAdopt \/ \E c \in Reconciles : CreateOrUpdateRBAC(c)

RBACStep ==
    \E c \in Reconciles :
       \/ ListInstances(c)
       \/ HelperCreate(c)
       \/ HelperGet(c)
       \/ HelperRetryGet(c)
       \/ HelperUpdate(c)

RBACEnvironment == \E i \in Reconciles : InstanceCreated(i) \/ InstanceDeleted(i)

NextRBAC == RBACCall \/ RBACStep \/ RBACEnvironment

SpecRBAC == InitRBAC /\ [][NextRBAC]_vars

Succeeded == {"created", "updated", "unchanged"}

\* no CreateOrUpdateRBAC is running, and all that ran have returned success
AllReturnedSuccess ==
    /\ \A c \in Reconciles : helper[c].pc = "idle" /\ helper[c].res \in Succeeded \cup {"none"}
    /\ \E c \in Reconciles : helper[c].res \in Succeeded

\* C34: once all running CreateOrUpdateRBAC calls have returned success, the subjects of
\* the binding elasticsearch-proxy cover every instance that existed when the last of the
\* calls listed the instances, however the reconciles of the clusters interleave.
C34_BindingCoversInstances ==
    AllReturnedSuccess => (stored.exists /\ listed \subseteq stored.copied)

(***************************************************************************)
(* Specification of the cluster settings: each reconcile pass of one       *)
(* cluster runs CreateOrUpdateConfigMaps, which stores the rendered        *)
(* configuration bundle and sets the UpdatingSettings condition, and then  *)
(* create of the node group that is missing, which records the            *)
(* fingerprint of the stored bundle when it has rolled the group out.      *)
(***************************************************************************)
InitSettings ==
    /\ InitWith({"master-a"})
    /\ configmap = NoBundle
    /\ secret.exists
    /\ node["master-a"].replicas = MaxReplicas

\* dpl.AddOwnerRefTo(cm): the owner reference of the cluster
OwnerRef == "owner-a"

\* the configuration bundle an earlier pass stored
SettingsAdopt ==
    /\ stored.kind = "none"
    /\ \E copied \in Contents :
          stored' = [kind |-> "configmap", exists |-> TRUE, copied |-> copied,
                     kept |-> OwnerRef, resourceVersion |-> 1]
    /\ configmap' = ConfigmapOf(stored')
    /\ UNCHANGED <<helper, instances, listed, conditions, contract>>
    /\ UNCHANGED nodeVars

\* CreateOrUpdateConfigMaps up to the call of configmap.CreateOrUpdate with the bundle
\* rendered from the cluster settings
CreateOrUpdateConfigMaps_render(c) ==
    /\ stored.kind = "configmap"
    /\ pc = "idle"
    /\ \E copied \in Contents : CreateOrUpdate(c, NewObject(copied, OwnerRef))

\* the pass goes on with the node group, which it creates when it is missing
SettingsCreate ==
    /\ stored.kind = "configmap"
    /\ helper["es-a"].pc = "idle"
    /\ \E g \in Groups : isMissing(g, FALSE) /\ create(g)

SettingsCall ==
    \/ SettingsAdopt
    \/ CreateOrUpdateConfigMaps_render("es-a")
    \/ SettingsCreate

SettingsStep ==
    \/ \E c \in Reconciles :
          \/ HelperCreate(c)
          \/ HelperGet(c)
          \/ HelperRetryGet(c)
          \/ HelperUpdate(c)
          \/ updateConditionWithRetry(c)
    \/ waitForInitialRollout

SettingsEnvironment == \E g \in Groups : ControllerSetsRevision(g)

NextSettings == SettingsCall \/ SettingsStep \/ SettingsEnvironment

SpecSettings == InitSettings /\ [][NextSettings]_vars

\* every node group has recorded the fingerprint of the stored configuration bundle
SettingsRolledOut ==
    \A g \in declared : node[g].configmapHash = getConfigmapDataHash(configmap)

\* C35: once the UpdatingSettings condition is True it stays True on later passes until
\* the node groups have been rolled out with the stored settings, and it is set to False
\* only by a pass whose CreateOrUpdate changed nothing.
C35_SettingsChangeStaysNoticed ==
    /\ [][(conditions.UpdatingSettings = "True" /\ conditions'.UpdatingSettings = "False")
             => SettingsRolledOut']_vars
    /\ [][(conditions'.UpdatingSettings = "False" /\ conditions' # conditions)
             => \E c \in Reconciles : helper[c].pc = "done" /\ helper[c].res = "unchanged"]_vars

(***************************************************************************)
(* Properties of the create-or-update helpers.                             *)
(***************************************************************************)
\* the reconcile called the helper a second time with the same desired object, nothing
\* else having touched the stored object since the first call returned success, and the
\* second call returned success too
CalledAgain(c) ==
    /\ helper[c].pc = "idle"
    /\ helper[c].prev.res \in Succeeded
    /\ helper[c].prev.desired = helper[c].desired
    /\ helper[c].res \in Succeeded

\* C36: a second CreateOrUpdate with the same desired object, after a first one returned
\* success and with no external change in between, returns "unchanged" and issues no
\* backend Update, for the helper of every kind.
C36_HelpersIdempotent ==
    \A c \in Reconciles :
       CalledAgain(c) => (helper[c].res = "unchanged" /\ helper[c].updates = 0)

\* C38: the object a retry attempt submits to the backend Update is the object read in
\* that attempt with the desired fields copied onto it: it carries the version of that
\* read, and it is never the caller's desired object itself.
C38_SubmitsWhatWasRead ==
    \A c \in Reconciles :
       helper[c].submitted # NoObject
          => /\ helper[c].submitted.resourceVersion = helper[c].readVersion
             /\ helper[c].submitted = MutateOf(stored.kind, helper[c].current, helper[c].desired)
             /\ helper[c].submitted # helper[c].desired

(***************************************************************************)
(* Specification of the update contract of the two workload backends:      *)
(* deployment.Update and statefulset.Update run on the same stored object, *)
(* the same desired object, the same value of the compare function and the *)
(* same answers of the API server.                                         *)
(***************************************************************************)
\* deployment.Update enters its retry loop when the compare function returned false
deployment_Update_writes(cmpValue) == ~cmpValue

\* statefulset.Update enters its retry loop when the compare function returned true
statefulset_Update_writes(cmpValue) == cmpValue

\* the rest of both functions: the first Get, the retry loop with its Get, the mutation
\* and the Update, and the result returned
UpdateRun(writes_, s, desired, getFails, updateFails) ==
    IF getFails \/ ~s.exists
    THEN [result |-> "unchanged", err |-> TRUE, wrote |-> FALSE, stored |-> s]
    ELSE IF ~writes_
         THEN [result |-> "unchanged", err |-> FALSE, wrote |-> FALSE, stored |-> s]
         ELSE IF updateFails
              THEN [result |-> "unchanged", err |-> TRUE, wrote |-> FALSE, stored |-> s]
              ELSE [result |-> "updated", err |-> FALSE, wrote |-> TRUE,
                    stored |-> Written(s, MutateOf(s.kind, Got(s), desired))]

deployment_Update(s, desired, cmpValue, getFails, updateFails) ==
    UpdateRun(deployment_Update_writes(cmpValue), s, desired, getFails, updateFails)

statefulset_Update(s, desired, cmpValue, getFails, updateFails) ==
    UpdateRun(statefulset_Update_writes(cmpValue), s, desired, getFails, updateFails)

InitContract ==
    /\ InitWith({"master-a"})
    /\ configmap = NoBundle /\ secret = NoBundle
    /\ node["master-a"].replicas = 0

\* both functions are run on the same inputs
UpdateBoth ==
    /\ contract = << >>
    /\ \E exists \in BOOLEAN, now \in Contents, keptNow \in KeptValues, version \in 1..MaxVersion,
          wanted \in Contents, keptWanted \in KeptValues, cmpValue \in BOOLEAN,
          getFails \in BOOLEAN, updateFails \in BOOLEAN :
          LET s == [kind |-> "workload", exists |-> exists, copied |-> now, kept |-> keptNow,
                    resourceVersion |-> version]
              desired == NewObject(wanted, keptWanted)
          IN  contract' = <<[stored |-> s, desired |-> desired, cmpValue |-> cmpValue,
                             getFails |-> getFails, updateFails |-> updateFails,
                             deployment |-> deployment_Update(s, desired, cmpValue,
                                                              getFails, updateFails),
                             statefulset |-> statefulset_Update(s, desired, cmpValue,
                                                                getFails, updateFails)]>>
    /\ UNCHANGED <<stored, helper, instances, listed, conditions, configmap>>
    /\ UNCHANGED nodeVars

NextContract == UpdateBoth

SpecContract == InitContract /\ [][NextContract]_vars

\* C37: for the same stored object, the same desired object and the same value returned
\* by the compare function, deployment.Update and statefulset.Update take the same
\* decision, write or no write, and return the same result.
C37_SameUpdateContract ==
    \A i \in DOMAIN contract :
       /\ contract[i].deployment.wrote = contract[i].statefulset.wrote
       /\ contract[i].deployment.result = contract[i].statefulset.result
       /\ contract[i].deployment.err = contract[i].statefulset.err

====
